---- MODULE Spec2Model ----
(***************************************************************************)
(* Text2ICS (EventCalendarGenerator): the retry classifier, the Gemini     *)
(* extraction client's retry loop and response parsing, the ICS builder    *)
(* and merger, the timezone resolver and the event record, as state        *)
(* machines.                                                               *)
(*                                                                         *)
(* Text (error messages, exception class names, LLM response text) is a    *)
(* sequence of one-character strings, so that Python's substring test,     *)
(* str.lower, str.strip, startswith/endswith/find and json.loads are       *)
(* computed on the characters as the code computes them.  The backquote    *)
(* is written "BACKTICK" (a TLA+ string cannot hold it).                   *)
(***************************************************************************)
EXTENDS Integers, Sequences, FiniteSets, TLC

VARIABLES
  \* ---- retry classifier (core/retry.py), checked as a pure function
  cls_error,      \* the exception handed to the classifier
  cls_result,     \* what is_retryable_error / is_api_key_error answered
  \* ---- CalendarAPIClient.get_event_data (core/api_client.py)
  max_retries,    \* self.max_retries
  base_delay,     \* self.base_delay
  image_data,     \* the image_data argument (one entry per image)
  pc,             \* position of the call: "idle", "loop" (loop head),
                  \* "images" (uploading), "api" (before the LLM call), "done"
  attempt,        \* the for-loop index of get_event_data
  img,            \* the image the loop of _prepare_image_history is at
  image_parts,    \* files uploaded so far in this attempt (image_parts)
  llm_calls,      \* number of chat.send_message calls made so far
  sleeps,         \* the time.sleep delays, in call order
  status_log,     \* the status_callback messages, in call order
  attempt_log,    \* one entry per finished attempt (what the environment did)
  trace,          \* the events of the latest attempt, in order
  cur_error,      \* the exception the latest attempt raised (if any)
  cur_origin,     \* that exception as first raised, before any wrapping
  cur_response,   \* whether the service answered the latest attempt, and the text
  result,         \* how the call ended: a return value or a raised exception
  \* ---- combine_ics_strings (core/ics_builder.py)
  ics_strings,    \* the argument: a list of ICS documents
  merged,         \* the outcome: the merged calendar or the raised error
  uuid_next,      \* uuid.uuid4(): number of UUIDs drawn so far
  \* ---- build_ics_from_events and the two callers that return final text
  raw_events,     \* what extraction returned: the raw elements
  built,          \* the outcome of build_ics_from_events(raw_events)
  final,          \* the outcome of the caller: the final text or the raised error
  \* ---- resolve_timezone (core/timezone_utils.py), checked as a pure function
  tz_call,        \* the arguments: tz_str and event_title
  tz_result,      \* what resolve_timezone returned
  \* ---- CalendarEvent (core/event_model.py), checked as a pure function
  ev_data,        \* the dict handed to CalendarEvent.from_dict
  ev_result,      \* the event made of it, its to_dict, the event made of that
  \* ---- ThemeManager (ui/theme/manager.py), called from several threads
  theme,          \* ThemeManager._theme
  theme_lock,     \* ThemeManager._lock: the thread that holds it, or 0
  th,             \* per thread: the call it is in, how far, what it returned
  th_calls,       \* number of ThemeManager calls started so far
  toggles,        \* number of toggle_theme calls that have returned
  sets,           \* number of set_theme calls started so far
  \* ---- NLCalendarCreator (ui/main_window.py, Calender.py): the main thread,
  \* ---- the executor's worker threads and the signals between them
  app,            \* which of the two programs runs: "main_window" or "Calender"
  api_client,     \* self.api_client: "None" or "client"
  create_enabled, \* create_button.isEnabled()
  settings_open,  \* the settings dialog is open (dialog.exec() is running)
  warnings_open,  \* the workers whose image-warning dialog is open
  sigq,           \* signals emitted by workers, not yet delivered to their slots
  pending,        \* tasks submitted to the executor that no worker has taken yet
  wk,             \* per worker thread: where it is in _create_event_thread
  requests,       \* number of process_event calls so far
  none_calls      \* number of get_event_data calls made on a None api_client

clsVars   == <<cls_error, cls_result>>
retryVars == <<max_retries, base_delay, image_data, pc, attempt, img, image_parts,
               llm_calls, sleeps,
               status_log, attempt_log, trace, cur_error, cur_origin, cur_response,
               result>>
mergeVars == <<ics_strings, merged, uuid_next>>
buildVars == <<raw_events, built, final>>
pureVars  == <<tz_call, tz_result, ev_data, ev_result>>
themeVars == <<theme, theme_lock, th, th_calls, toggles, sets>>
appVars   == <<app, api_client, create_enabled, settings_open, warnings_open, sigq,
               pending, wk, requests, none_calls>>
uiVars    == <<themeVars, appVars>>
vars      == <<clsVars, retryVars, mergeVars, buildVars, pureVars, uiVars>>

---------------------------------------------------------------------------
(* Python string operations on sequences of characters.                    *)

UpperLetters == <<"A","B","C","D","E","F","G","H","I","J","K","L","M","N","O","P","Q","R","S","T","U","V","W","X","Y","Z">>
LowerLetters == <<"a","b","c","d","e","f","g","h","i","j","k","l","m","n","o","p","q","r","s","t","u","v","w","x","y","z">>

\* str.lower on one character
LowerChar(c) ==
  IF \E i \in 1..Len(UpperLetters) : UpperLetters[i] = c
    THEN LowerLetters[CHOOSE i \in 1..Len(UpperLetters) : UpperLetters[i] = c]
    ELSE c

\* str.lower
RECURSIVE Lower(_)
Lower(s) == IF s = <<>> THEN <<>> ELSE <<LowerChar(Head(s))>> \o Lower(Tail(s))

\* `p in s` (substring test)
Contains(s, p) ==
  \E i \in 1..(Len(s) - Len(p) + 1) : SubSeq(s, i, i + Len(p) - 1) = p

\* s.startswith(p) / s.endswith(p)
StartsWith(s, p) == Len(s) >= Len(p) /\ SubSeq(s, 1, Len(p)) = p
EndsWith(s, p)   == Len(s) >= Len(p) /\ SubSeq(s, Len(s) - Len(p) + 1, Len(s)) = p

\* s.find(c) for a single character, 0-based, -1 when absent
Find(s, c) ==
  IF \E i \in 1..Len(s) : s[i] = c
    THEN (CHOOSE i \in 1..Len(s) : s[i] = c /\ \A j \in 1..(i - 1) : s[j] # c) - 1
    ELSE -1

Whitespace == {" ", "\n", "\t", "\r"}

RECURSIVE LStrip(_)
LStrip(s) == IF s # <<>> /\ Head(s) \in Whitespace THEN LStrip(Tail(s)) ELSE s

RECURSIVE RStrip(_)
RStrip(s) ==
  IF s # <<>> /\ s[Len(s)] \in Whitespace THEN RStrip(SubSeq(s, 1, Len(s) - 1)) ELSE s

\* str.strip
Strip(s) == RStrip(LStrip(s))

\* str(n) for a small natural number
DigitChars == <<"0","1","2","3","4","5","6","7","8","9">>
RECURSIVE IntToStr(_)
IntToStr(n) ==
  IF n < 10 THEN <<DigitChars[n + 1]>>
            ELSE IntToStr(n \div 10) \o <<DigitChars[(n % 10) + 1]>>

---------------------------------------------------------------------------
(* config/constants.py: the error classification patterns.                 *)

NON_RETRYABLE_ERROR_PATTERNS ==
  << <<"i","n","v","a","l","i","d"," ","a","p","i"," ","k","e","y">>,
     <<"a","p","i","_","k","e","y","_","i","n","v","a","l","i","d">>,
     <<"a","p","i"," ","k","e","y"," ","e","x","p","i","r","e","d">>,
     <<"p","e","r","m","i","s","s","i","o","n"," ","d","e","n","i","e","d">>,
     <<"q","u","o","t","a"," ","e","x","c","e","e","d","e","d">>,
     <<"i","n","v","a","l","i","d"," ","a","r","g","u","m","e","n","t">>,
     <<"a","u","t","h","e","n","t","i","c","a","t","i","o","n">>,
     <<"u","n","a","u","t","h","o","r","i","z","e","d">> >>

RETRYABLE_ERROR_PATTERNS ==
  << <<"t","i","m","e","o","u","t">>,
     <<"d","e","a","d","l","i","n","e"," ","e","x","c","e","e","d","e","d">>,
     <<"s","e","r","v","i","c","e"," ","u","n","a","v","a","i","l","a","b","l","e">>,
     <<"r","e","s","o","u","r","c","e"," ","e","x","h","a","u","s","t","e","d">>,
     <<"c","o","n","n","e","c","t","i","o","n">>,
     <<"n","e","t","w","o","r","k">>,
     <<"t","e","m","p","o","r","a","r","i","l","y"," ","u","n","a","v","a","i","l","a","b","l","e">> >>

API_KEY_ERROR_PATTERNS ==
  << <<"a","p","i"," ","k","e","y"," ","e","x","p","i","r","e","d">>,
     <<"a","p","i","_","k","e","y","_","i","n","v","a","l","i","d">>,
     <<"i","n","v","a","l","i","d"," ","a","p","i"," ","k","e","y">> >>

---------------------------------------------------------------------------
(* Exceptions.  An exception is [type, msg, cause]: its class name, its    *)
(* str() and its direct __cause__ (NoCause, or [type, msg]).               *)

NoCause == [type |-> <<>>, msg |-> <<>>, none |-> TRUE]
HasCause(e) == "none" \notin DOMAIN e.cause

Exc(type, msg) == [type |-> type, msg |-> msg, cause |-> NoCause]
\* `raise new from old`
ExcFrom(type, msg, old) ==
  [type |-> type, msg |-> msg, cause |-> [type |-> old.type, msg |-> old.msg]]

\* exceptions.py: CalendarAPIError and its subclasses
CalendarAPIErrorClasses ==
  { <<"C","a","l","e","n","d","a","r","A","P","I","E","r","r","o","r">>, <<"T","i","m","e","z","o","n","e","R","e","s","o","l","u","t","i","o","n","E","r","r","o","r">>, <<"E","v","e","n","t","V","a","l","i","d","a","t","i","o","n","E","r","r","o","r">>,
    <<"I","m","a","g","e","P","r","o","c","e","s","s","i","n","g","E","r","r","o","r">>, <<"A","P","I","R","e","s","p","o","n","s","e","E","r","r","o","r">>, <<"R","e","t","r","y","E","x","h","a","u","s","t","e","d","E","r","r","o","r">> }

\* isinstance(error, CalendarAPIError)
IsCalendarAPIError(e) == e.type \in CalendarAPIErrorClasses

---------------------------------------------------------------------------
(* core/retry.py                                                           *)

\* `pattern in a or pattern in b` for some pattern of the list
AnyPatternIn(patterns, a, b) ==
  \E k \in 1..Len(patterns) : Contains(a, patterns[k]) \/ Contains(b, patterns[k])

\* A plausible slip: the retryable (allow) patterns are tried before the
\* non-retryable (deny) ones.
is_retryable_error_AllowFirst(error) ==
  IF IsCalendarAPIError(error) THEN FALSE
  ELSE IF AnyPatternIn(RETRYABLE_ERROR_PATTERNS, Lower(error.msg), Lower(error.type))
    THEN TRUE
  ELSE IF AnyPatternIn(NON_RETRYABLE_ERROR_PATTERNS, Lower(error.msg), Lower(error.type))
    THEN FALSE
  ELSE IF HasCause(error)
          /\ AnyPatternIn(NON_RETRYABLE_ERROR_PATTERNS,
                          Lower(error.cause.msg), Lower(error.cause.type))
    THEN FALSE
  ELSE TRUE

\* A plausible slip: an error that matches no pattern is not retried.
is_retryable_error_DenyUnknown(error) ==
  IF IsCalendarAPIError(error) THEN FALSE
  ELSE IF AnyPatternIn(NON_RETRYABLE_ERROR_PATTERNS, Lower(error.msg), Lower(error.type))
    THEN FALSE
  ELSE IF HasCause(error)
          /\ AnyPatternIn(NON_RETRYABLE_ERROR_PATTERNS,
                          Lower(error.cause.msg), Lower(error.cause.type))
    THEN FALSE
  ELSE AnyPatternIn(RETRYABLE_ERROR_PATTERNS, Lower(error.msg), Lower(error.type))

is_retryable_error(error) ==
  LET error_str  == Lower(error.msg)
      error_type == Lower(error.type)
  IN  IF IsCalendarAPIError(error) THEN FALSE
      ELSE IF AnyPatternIn(NON_RETRYABLE_ERROR_PATTERNS, error_str, error_type)
        THEN FALSE
      ELSE IF HasCause(error)
              /\ AnyPatternIn(NON_RETRYABLE_ERROR_PATTERNS,
                              Lower(error.cause.msg), Lower(error.cause.type))
        THEN FALSE
      ELSE IF AnyPatternIn(RETRYABLE_ERROR_PATTERNS, error_str, error_type)
        THEN TRUE
      ELSE TRUE

is_api_key_error(error) ==
  LET error_str == Lower(error.msg)
  IN  \E k \in 1..Len(API_KEY_ERROR_PATTERNS) :
        Contains(error_str, API_KEY_ERROR_PATTERNS[k])

MSG_KEY_EXPIRED == <<"A","P","I"," ","k","e","y"," ","h","a","s"," ","e","x","p","i","r","e","d","."," ","P","l","e","a","s","e"," ","r","e","n","e","w"," ","y","o","u","r"," ","G","e","m","i","n","i"," ","A","P","I"," ","k","e","y",".">>
MSG_KEY_INVALID == <<"A","P","I"," ","k","e","y"," ","i","s"," ","i","n","v","a","l","i","d","."," ","P","l","e","a","s","e"," ","c","h","e","c","k"," ","y","o","u","r"," ","G","e","m","i","n","i"," ","A","P","I"," ","k","e","y",".">>

\* returns the CalendarAPIError; the callers raise it `from error`
wrap_api_key_error(error) ==
  LET error_str == Lower(error.msg)
      msg == IF Contains(error_str, <<"e","x","p","i","r","e","d">>) THEN MSG_KEY_EXPIRED ELSE MSG_KEY_INVALID
  IN  ExcFrom(<<"C","a","l","e","n","d","a","r","A","P","I","E","r","r","o","r">>, msg, error)

---------------------------------------------------------------------------
(* json.loads on the characters (core/api_client.py line 338).  A parse    *)
(* result is [ok, next, kind, len]: whether a value was read, the index    *)
(* after it, the Python type of the value and the value's len().           *)

JsonFail == [ok |-> FALSE, next |-> 0, kind |-> "invalid", len |-> 0]
JsonOk(next, kind, n) == [ok |-> TRUE, next |-> next, kind |-> kind, len |-> n]

\* the character at 1-based index i, "" past the end
At(s, i) == IF i >= 1 /\ i <= Len(s) THEN s[i] ELSE ""

\* s[i:].startswith(p), i 1-based
StartsWithAt(s, i, p) == i + Len(p) - 1 <= Len(s) /\ SubSeq(s, i, i + Len(p) - 1) = p

RECURSIVE SkipWs(_, _)
SkipWs(s, i) == IF At(s, i) \in Whitespace THEN SkipWs(s, i + 1) ELSE i

JsonDigits == {"0", "1", "2", "3", "4", "5", "6", "7", "8", "9"}

RECURSIVE SkipDigits(_, _)
SkipDigits(s, i) == IF At(s, i) \in JsonDigits THEN SkipDigits(s, i + 1) ELSE i

\* match_number at index i: NUMBER_RE,
\* (-?(?:0|[1-9]\d*))(\.\d+)?([eE][-+]?\d+)?, group by group; an int when
\* there is neither fraction nor exponent, else a float
JsonNumber(s, i) ==
  LET \* the integer part from index j (after the sign): its end, 0 if none
      IntEnd(j) ==
        IF At(s, j) = "0" THEN j + 1
        ELSE IF At(s, j) \in JsonDigits THEN SkipDigits(s, j)
        ELSE 0
      \* (\.\d+)? from index e: its end, e when there is no fraction
      FracEnd(e) ==
        IF At(s, e) = "." /\ At(s, e + 1) \in JsonDigits THEN SkipDigits(s, e + 1) ELSE e
      \* ([eE][-+]?\d+)? from index e: its end, e when there is no exponent
      ExpEnd(e) ==
        IF At(s, e) \notin {"e", "E"} THEN e
        ELSE IF At(s, e + 1) \in {"+", "-"} /\ At(s, e + 2) \in JsonDigits
          THEN SkipDigits(s, e + 2)
        ELSE IF At(s, e + 1) \in JsonDigits THEN SkipDigits(s, e + 1)
        ELSE e
      NumberResult(int_end, end) ==
        IF int_end = 0 THEN JsonFail
        ELSE JsonOk(end, IF end = int_end THEN "int" ELSE "float", 0)
      NumberTail(int_end) == NumberResult(int_end, ExpEnd(FracEnd(int_end)))
  IN  NumberTail(IntEnd(IF At(s, i) = "-" THEN i + 1 ELSE i))

HexChars == <<"0","1","2","3","4","5","6","7","8","9","a","b","c","d","e","f","A","B","C","D","E","F">>

\* int(c, 16) of one character, -1 when it is not a hex digit
HexDigit(c) ==
  IF \E k \in 1..Len(HexChars) : HexChars[k] = c
    THEN LET DigitValue(k) == IF k > 16 THEN k - 7 ELSE k - 1
         IN  DigitValue(CHOOSE k \in 1..Len(HexChars) : HexChars[k] = c)
    ELSE -1

\* _decode_uXXXX: the four hex digits at i..i+3 as a number, -1 when they
\* are not four hex digits
Hex4(s, i) ==
  LET Number(a, b, c, d) ==
        IF a < 0 \/ b < 0 \/ c < 0 \/ d < 0 THEN -1 ELSE ((a * 16 + b) * 16 + c) * 16 + d
  IN  Number(HexDigit(At(s, i)), HexDigit(At(s, i + 1)),
             HexDigit(At(s, i + 2)), HexDigit(At(s, i + 3)))

\* the printable ASCII characters, from code 32 to code 126
Ascii == <<" ","!","\"","#","$","%","&","'","(",")","*","+",",","-",".","/","0","1","2","3","4","5","6","7","8","9",":",";","<","=",">","?","@","A","B","C","D","E","F","G","H","I","J","K","L","M","N","O","P","Q","R","S","T","U","V","W","X","Y","Z","[","\\","]","^","_","BACKTICK","a","b","c","d","e","f","g","h","i","j","k","l","m","n","o","p","q","r","s","t","u","v","w","x","y","z","{","|","}","~">>

\* chr(n); a character that is not written here as itself is "U+" and its code
CharOfCode(n) ==
  IF n = 10 THEN "\n"
  ELSE IF n = 9 THEN "\t"
  ELSE IF n = 13 THEN "\r"
  ELSE IF n >= 32 /\ n <= 126 THEN Ascii[n - 31]
  ELSE "U+" \o ToString(n)

\* BACKSLASH: the characters that may follow a backslash, and what they give
EscapeChars == <<"\"","\\","/","b","f","n","r","t">>
EscapeValues == <<"\"", "\\", "/", CharOfCode(8), CharOfCode(12), "\n", "\r", "\t">>

\* py_scanstring (strict), one character of the string's content at index
\* j, escapes decoded: [ok, next, char]
JsonChar(s, j) ==
  LET Fail == [ok |-> FALSE, next |-> 0, char |-> ""]
      Ok(next, char) == [ok |-> TRUE, next |-> next, char |-> char]
      \* \uXXXX with number uni, uni2 the number of the \uXXXX that follows
      \* it, if any: a surrogate pair is one character
      Unicode(uni, pair, uni2) ==
        IF uni = -1 \/ (pair /\ uni2 = -1) THEN Fail
        ELSE IF pair /\ uni2 >= 56320 /\ uni2 <= 57343
          THEN Ok(j + 12, CharOfCode(65536 + (uni - 55296) * 1024 + (uni2 - 56320)))
        ELSE Ok(j + 6, CharOfCode(uni))
      High(uni) == uni >= 55296 /\ uni <= 56319
  IN  IF s[j] \in {"\n", "\t", "\r"} THEN Fail
      ELSE IF s[j] # "\\" THEN Ok(j + 1, s[j])
      ELSE IF \E k \in 1..Len(EscapeChars) : EscapeChars[k] = At(s, j + 1)
        THEN Ok(j + 2, EscapeValues[CHOOSE k \in 1..Len(EscapeChars) :
                                      EscapeChars[k] = At(s, j + 1)])
      ELSE IF At(s, j + 1) # "u" THEN Fail
      ELSE Unicode(Hex4(s, j + 2),
                   High(Hex4(s, j + 2)) /\ StartsWithAt(s, j + 6, <<"\\", "u">>),
                   Hex4(s, j + 8))

StringFail == [ok |-> FALSE, next |-> 0, text |-> <<>>]

\* py_scanstring from index j, inside the quotes, with the text read so
\* far: [ok, next, text], next the index after the closing quote
RECURSIVE JsonStringScan(_, _, _)
JsonStringScan(s, j, text) ==
  LET On(c) == IF c.ok THEN JsonStringScan(s, c.next, Append(text, c.char))
                       ELSE StringFail
  IN  IF j > Len(s) THEN StringFail
      ELSE IF s[j] = "\"" THEN [ok |-> TRUE, next |-> j + 1, text |-> text]
      ELSE On(JsonChar(s, j))

\* a string, opening quote at index i
JsonString(s, i) ==
  LET Result(r) == IF r.ok THEN JsonOk(r.next, "string", Len(r.text)) ELSE JsonFail
  IN  Result(JsonStringScan(s, i + 1, <<>>))

RECURSIVE JsonValue(_, _)
RECURSIVE JsonElements(_, _, _)
RECURSIVE JsonMembers(_, _, _)

\* JSONArray: the elements of an array from index i on, after n elements
JsonElements(s, i, n) ==
  LET \* after the element v, at index k: a comma or the end
      On(v, k) ==
        IF ~v.ok THEN JsonFail
        ELSE IF At(s, k) = "," THEN JsonElements(s, SkipWs(s, k + 1), n + 1)
        ELSE IF At(s, k) = "]" THEN JsonOk(k + 1, "array", n + 1)
        ELSE JsonFail
      After(v) == On(v, SkipWs(s, v.next))
  IN  After(JsonValue(s, i))

\* JSONObject: the members of an object from index i (a key) on, with the
\* keys read so far; a repeated key counts once in the dict
JsonMembers(s, i, keys) ==
  LET \* after the value v of a member, at index k: a comma or the end
      On(all, v, k) ==
        IF ~v.ok THEN JsonFail
        ELSE IF At(s, k) = "," THEN JsonMembers(s, SkipWs(s, k + 1), all)
        ELSE IF At(s, k) = "}" THEN JsonOk(k + 1, "object", Cardinality(all))
        ELSE JsonFail
      AfterValue(all, v) == On(all, v, SkipWs(s, v.next))
      \* after the key of a member, c the index of its colon
      AfterKey(key, c) ==
        IF ~key.ok \/ At(s, c) # ":" THEN JsonFail
        ELSE AfterValue(keys \cup {key.text}, JsonValue(s, SkipWs(s, c + 1)))
      Key(key) == AfterKey(key, SkipWs(s, key.next))
  IN  Key(IF At(s, i) = "\"" THEN JsonStringScan(s, i + 1, <<>>) ELSE StringFail)

\* scanner.py, _scan_once: one value starting at index i
JsonValue(s, i) ==
  LET ObjectAt(k) ==
        IF At(s, k) = "}" THEN JsonOk(k + 1, "object", 0) ELSE JsonMembers(s, k, {})
      ArrayAt(k) ==
        IF At(s, k) = "]" THEN JsonOk(k + 1, "array", 0) ELSE JsonElements(s, k, 0)
      \* after match_number: the number, or NaN, Infinity, -Infinity
      NumberOrConstant(number) ==
        IF number.ok THEN number
        ELSE IF StartsWithAt(s, i, <<"N","a","N">>) THEN JsonOk(i + 3, "float", 0)
        ELSE IF StartsWithAt(s, i, <<"I","n","f","i","n","i","t","y">>) THEN JsonOk(i + 8, "float", 0)
        ELSE IF StartsWithAt(s, i, <<"-","I","n","f","i","n","i","t","y">>) THEN JsonOk(i + 9, "float", 0)
        ELSE JsonFail
  IN  IF At(s, i) = "\"" THEN JsonString(s, i)
      ELSE IF At(s, i) = "{" THEN ObjectAt(SkipWs(s, i + 1))
      ELSE IF At(s, i) = "[" THEN ArrayAt(SkipWs(s, i + 1))
      ELSE IF StartsWithAt(s, i, <<"n","u","l","l">>) THEN JsonOk(i + 4, "null", 0)
      ELSE IF StartsWithAt(s, i, <<"t","r","u","e">>) THEN JsonOk(i + 4, "bool", 0)
      ELSE IF StartsWithAt(s, i, <<"f","a","l","s","e">>) THEN JsonOk(i + 5, "bool", 0)
      ELSE NumberOrConstant(JsonNumber(s, i))

\* json.loads(s): one value, white space around it, and nothing else
JsonLoads(s) ==
  LET v == JsonValue(s, SkipWs(s, 1))
  IN  IF v.ok /\ SkipWs(s, v.next) = Len(s) + 1 THEN v ELSE JsonFail

\* Python values that have a len(): list, dict, str
JsonSized == {"array", "object", "string"}

---------------------------------------------------------------------------
(* CalendarAPIClient (core/api_client.py).  A step of a function returns   *)
(* [raised, error, ...]: whether it raised, and what.                       *)

NoError == NoCause
NoText  == <<>>

\* config.py: APIConfig.max_backoff
MAX_BACKOFF == 10

\* status_callback messages (config/constants.py), with their numbers
Status(msg, x, y) == [msg |-> msg, x |-> x, y |-> y]

FENCE == <<"BACKTICK","BACKTICK","BACKTICK">>

\* _parse_response: strip a Markdown code fence, then json.loads.
\* Returns [raised, error, value]; value is [kind, len, json].  (The
\* JSONDecodeError message differs with the failure, "Expecting value",
\* "Extra data", ..., each followed by the position; one stands for all.)
StripFence(response_text) ==
  LET cleaned == Strip(response_text)
  IN  IF StartsWith(cleaned, FENCE)
        THEN LET first_newline == Find(cleaned, "\n")
                 c1 == IF first_newline # -1
                         THEN SubSeq(cleaned, first_newline + 2, Len(cleaned))
                         ELSE SubSeq(cleaned, 4, Len(cleaned))
                 c2 == IF EndsWith(c1, FENCE) THEN SubSeq(c1, 1, Len(c1) - 3) ELSE c1
             IN  Strip(c2)
        ELSE cleaned

NoValue == [kind |-> "none", len |-> 0, json |-> <<>>]

\* A plausible slip: a response that does not parse counts as "no events".
parse_response_EmptyOnFailure(response_text) ==
  LET cleaned == StripFence(response_text)
      v == JsonLoads(cleaned)
  IN  IF v.ok
        THEN [raised |-> FALSE, error |-> NoError,
              value |-> [kind |-> v.kind, len |-> v.len, json |-> cleaned]]
        ELSE [raised |-> FALSE, error |-> NoError,
              value |-> [kind |-> "array", len |-> 0, json |-> <<"[","]">>]]

parse_response(response_text) ==
  LET cleaned == StripFence(response_text)
      v == JsonLoads(cleaned)
  IN  IF v.ok
        THEN [raised |-> FALSE, error |-> NoError,
              value |-> [kind |-> v.kind, len |-> v.len, json |-> cleaned]]
        ELSE [raised |-> TRUE,
              error |-> ExcFrom(<<"V","a","l","u","e","E","r","r","o","r">>, <<"L","L","M"," ","r","e","t","u","r","n","e","d"," ","i","n","v","a","l","i","d"," ","J","S","O","N",":"," ","E","x","p","e","c","t","i","n","g"," ","v","a","l","u","e">>,
                                Exc(<<"J","S","O","N","D","e","c","o","d","e","E","r","r","o","r">>, <<"E","x","p","e","c","t","i","n","g"," ","v","a","l","u","e">>)),
              value |-> NoValue]

\* _extract_text: message.text, else the joined parts, else str(message)
RECURSIVE JoinParts(_)
JoinParts(parts) ==
  IF parts = <<>> THEN <<>>
  ELSE (IF Head(parts).has_text THEN Head(parts).text ELSE <<>>) \o JoinParts(Tail(parts))

MESSAGE_REPR == <<"<","G","e","n","e","r","a","t","e","C","o","n","t","e","n","t","R","e","s","p","o","n","s","e",">">>

extract_text(message) ==
  IF message.has_text THEN message.text
  ELSE IF message.parts # <<>> THEN JoinParts(message.parts)
  ELSE MESSAGE_REPR

\* _call_api: chat.send_message, then the response text; llm is what the
\* service does: [raises, error, message].  Returns [raised, error, text].
call_api(llm) ==
  IF llm.raises THEN [raised |-> TRUE, error |-> llm.error, text |-> NoText]
  ELSE LET response_text == extract_text(llm.message)
       IN  IF response_text = <<>>
             THEN [raised |-> TRUE,
                   error |-> Exc(<<"V","a","l","u","e","E","r","r","o","r">>, <<"R","e","c","e","i","v","e","d"," ","e","m","p","t","y"," ","r","e","s","p","o","n","s","e"," ","f","r","o","m"," ","A","P","I">>),
                   text |-> NoText]
             ELSE [raised |-> FALSE, error |-> NoError, text |-> response_text]

\* upload_to_gemini: up is what happens to this upload:
\* [exists, exists_again, raises, error].  Returns [raised, error, origin];
\* origin is the exception as genai.upload_file raised it, before wrapping.
\* (Image paths are taken not to spell an error pattern: the FileNotFoundError
\* message carries the path.)
upload_to_gemini(up) ==
  IF ~up.exists_again
    THEN LET e == Exc(<<"F","i","l","e","N","o","t","F","o","u","n","d","E","r","r","o","r">>, <<"F","i","l","e"," ","n","o","t"," ","f","o","u","n","d",":"," ","a",".","p","n","g">>)
         IN  [raised |-> TRUE, error |-> e, origin |-> e]
  ELSE IF up.raises
    THEN (IF is_api_key_error(up.error)
            THEN [raised |-> TRUE, error |-> wrap_api_key_error(up.error),
                  origin |-> up.error]
            ELSE [raised |-> TRUE, error |-> up.error, origin |-> up.error])
  ELSE [raised |-> FALSE, error |-> NoError, origin |-> NoError]

\* One pass of the loop of _prepare_image_history (lines 251-259) for an
\* image: a CalendarAPIError ends the attempt, any other upload error is
\* logged and the image is skipped.  Returns [raised, error, origin, parts,
\* called]: parts is the number of files appended, called whether
\* upload_to_gemini was called.
image_pass(up) ==
  IF ~up.exists
    THEN [raised |-> FALSE, error |-> NoError, origin |-> NoError, parts |-> 0,
          called |-> FALSE]
  ELSE LET u == upload_to_gemini(up)
       IN  IF u.raised /\ IsCalendarAPIError(u.error)
             THEN [raised |-> TRUE, error |-> u.error, origin |-> u.origin, parts |-> 0,
                   called |-> TRUE]
           ELSE IF u.raised
             THEN [raised |-> FALSE, error |-> NoError, origin |-> NoError, parts |-> 0,
                   called |-> TRUE]
           ELSE [raised |-> FALSE, error |-> NoError, origin |-> NoError, parts |-> 1,
                 called |-> TRUE]

\* type(value).__name__ of what json.loads gives
PyTypeName(kind) ==
  CASE kind = "array"  -> <<"l","i","s","t">>
    [] kind = "object" -> <<"d","i","c","t">>
    [] kind = "string" -> <<"s","t","r">>
    [] kind = "int"    -> <<"i","n","t">>
    [] kind = "float"  -> <<"f","l","o","a","t">>
    [] kind = "bool"   -> <<"b","o","o","l">>
    [] OTHER           -> <<"N","o","n","e","T","y","p","e">>

\* the TypeError of len() on a value that has none
NoLen(kind) == Exc(<<"T","y","p","e","E","r","r","o","r">>, <<"o","b","j","e","c","t"," ","o","f"," ","t","y","p","e"," ","'">> \o PyTypeName(kind) \o <<"'"," ","h","a","s"," ","n","o"," ","l","e","n","(",")">>)

\* A plausible slip: an empty list of events is refused like a bad response.
events_len_RefuseEmpty(value) ==
  IF value.kind \notin JsonSized \/ value.len = 0
    THEN [raised |-> TRUE, error |-> NoLen(value.kind)]
    ELSE [raised |-> FALSE, error |-> NoError]

\* A plausible slip: the parsed value is returned without len() being taken.
events_len_NotTaken(value) == [raised |-> FALSE, error |-> NoError]

\* len(events) (lines 200-201): a number, a bool or None has no len()
events_len(value) ==
  IF value.kind \notin JsonSized
    THEN [raised |-> TRUE, error |-> NoLen(value.kind)]
    ELSE [raised |-> FALSE, error |-> NoError]

\* The rest of the try block once the images are uploaded (lines 197-202):
\* _call_api, _parse_response, len(events), the success status.
\* Returns [raised, error, events, response, status, trace]: response is
\* whether the service answered and with what text.
call_and_parse(llm) ==
  LET api      == call_api(llm)
      parsed   == parse_response(api.text)
      size     == events_len(parsed.value)
      response == [responded |-> ~llm.raises,
                   text |-> IF llm.raises THEN NoText ELSE extract_text(llm.message)]
      Raise(e) ==
        [raised |-> TRUE, error |-> e, events |-> NoValue, response |-> response,
         status |-> <<>>, trace |-> <<"llm">>]
  IN  IF api.raised THEN Raise(api.error)
      ELSE IF parsed.raised THEN Raise(parsed.error)
      ELSE IF size.raised THEN Raise(size.error)
      ELSE [raised |-> FALSE, error |-> NoError, events |-> parsed.value,
            response |-> response,
            status |-> <<Status("SUCCESS", parsed.value.len, 0)>>,
            trace |-> <<"llm", "status">>]

Min(a, b) == IF a <= b THEN a ELSE b

RECURSIVE Pow2(_)
Pow2(n) == IF n = 0 THEN 1 ELSE 2 * Pow2(n - 1)

\* RetryExhaustedError(attempts, last_error) (exceptions.py)
RetryExhausted(attempts, last_error) ==
  [type |-> <<"R","e","t","r","y","E","x","h","a","u","s","t","e","d","E","r","r","o","r">>,
   msg |-> <<"F","a","i","l","e","d"," ","a","f","t","e","r"," ">> \o IntToStr(attempts) \o <<" ","a","t","t","e","m","p","t","s",":"," ">> \o last_error.msg,
   cause |-> [type |-> last_error.type, msg |-> last_error.msg],
   attempts |-> attempts,
   last_error |-> last_error]

HandleRaise(error, status, tr) ==
  [raised |-> TRUE, error |-> error, ret |-> FALSE, status |-> status, sleep |-> <<>>,
   trace |-> tr]
HandleReturn(ret, status, sleep, tr) ==
  [raised |-> FALSE, error |-> NoError, ret |-> ret, status |-> status, sleep |-> sleep,
   trace |-> tr]

\* A plausible slip: the attempt budget is tested before the error is
\* classified, so the last attempt always ends in RetryExhaustedError.
handle_retry_BudgetFirst(error, a) ==
  IF a >= max_retries - 1
    THEN HandleRaise(RetryExhausted(max_retries, error), <<Status("MAX_RETRIES", 0, 0)>>,
                     <<"status">>)
  ELSE IF is_api_key_error(error) THEN HandleRaise(wrap_api_key_error(error), <<>>, <<>>)
  ELSE IF ~is_retryable_error(error)
    THEN HandleReturn(FALSE, <<Status("NON_RETRYABLE", 0, 0)>>, <<>>, <<"status">>)
  ELSE LET delay == Min(base_delay * Pow2(a), MAX_BACKOFF)
       IN  HandleReturn(TRUE, <<Status("RETRYING", delay, 0)>>, <<delay>>,
                        <<"status", "sleep">>)

\* A plausible slip: the API-key test is left to the retry classifier and
\* the budget, so a key error on an early attempt is slept on and retried.
handle_retry_NoKeyCheck(error, a) ==
  IF a >= max_retries - 1
    THEN (IF is_api_key_error(error)
            THEN HandleRaise(wrap_api_key_error(error), <<>>, <<>>)
            ELSE HandleRaise(RetryExhausted(max_retries, error), <<Status("MAX_RETRIES", 0, 0)>>,
                     <<"status">>))
  ELSE LET delay == Min(base_delay * Pow2(a), MAX_BACKOFF)
       IN  HandleReturn(TRUE, <<Status("RETRYING", delay, 0)>>, <<delay>>,
                        <<"status", "sleep">>)

\* A plausible slip: the exhaustion test is off by one (attempt > max_retries - 1),
\* so the last failure is slept on and the loop runs out.
handle_retry_OffByOne(error, a) ==
  IF is_api_key_error(error) THEN HandleRaise(wrap_api_key_error(error), <<>>, <<>>)
  ELSE IF ~is_retryable_error(error)
    THEN HandleReturn(FALSE, <<Status("NON_RETRYABLE", 0, 0)>>, <<>>, <<"status">>)
  ELSE IF a > max_retries - 1
    THEN HandleRaise(RetryExhausted(max_retries, error), <<Status("MAX_RETRIES", 0, 0)>>,
                     <<"status">>)
  ELSE LET delay == Min(base_delay * Pow2(a), MAX_BACKOFF)
       IN  HandleReturn(TRUE, <<Status("RETRYING", delay, 0)>>, <<delay>>,
                        <<"status", "sleep">>)

\* A plausible slip: the delay is not capped at max_backoff.
handle_retry_NoCap(error, a) ==
  IF is_api_key_error(error) THEN HandleRaise(wrap_api_key_error(error), <<>>, <<>>)
  ELSE IF ~is_retryable_error(error)
    THEN HandleReturn(FALSE, <<Status("NON_RETRYABLE", 0, 0)>>, <<>>, <<"status">>)
  ELSE IF a >= max_retries - 1
    THEN HandleRaise(RetryExhausted(max_retries, error), <<Status("MAX_RETRIES", 0, 0)>>,
                     <<"status">>)
  ELSE LET delay == base_delay * Pow2(a)
       IN  HandleReturn(TRUE, <<Status("RETRYING", delay, 0)>>, <<delay>>,
                        <<"status", "sleep">>)

\* _handle_retry(error, attempt, status_callback): raises, or returns whether
\* to go on; on True it has slept.
handle_retry(error, a) ==
  IF is_api_key_error(error) THEN HandleRaise(wrap_api_key_error(error), <<>>, <<>>)
  ELSE IF ~is_retryable_error(error)
    THEN HandleReturn(FALSE, <<Status("NON_RETRYABLE", 0, 0)>>, <<>>, <<"status">>)
  ELSE IF a >= max_retries - 1
    THEN HandleRaise(RetryExhausted(max_retries, error), <<Status("MAX_RETRIES", 0, 0)>>,
                     <<"status">>)
  ELSE LET delay == Min(base_delay * Pow2(a), MAX_BACKOFF)
       IN  HandleReturn(TRUE, <<Status("RETRYING", delay, 0)>>, <<delay>>,
                        <<"status", "sleep">>)
---------------------------------------------------------------------------
(* The classifier as a pure function: Init draws the exception, Classify   *)
(* applies is_retryable_error and is_api_key_error to it.                  *)

ClsTypes ==
  { <<"E","x","c","e","p","t","i","o","n">>, <<"V","a","l","u","e","E","r","r","o","r">>, <<"T","i","m","e","o","u","t","E","r","r","o","r">>, <<"C","o","n","n","e","c","t","i","o","n","E","r","r","o","r">>, <<"P","e","r","m","i","s","s","i","o","n","D","e","n","i","e","d">>,
    <<"U","n","a","u","t","h","o","r","i","z","e","d">>, <<"C","a","l","e","n","d","a","r","A","P","I","E","r","r","o","r">>, <<"A","P","I","R","e","s","p","o","n","s","e","E","r","r","o","r">> }

ClsMessages ==
  { <<>>,
    <<"b","o","o","m">>,
    <<"I","n","v","a","l","i","d"," ","A","P","I"," ","k","e","y">>,
    <<"A","P","I","_","K","E","Y","_","I","N","V","A","L","I","D">>,
    <<"A","P","I"," ","k","e","y"," ","e","x","p","i","r","e","d">>,
    <<"P","e","r","m","i","s","s","i","o","n"," ","d","e","n","i","e","d">>,
    <<"Q","u","o","t","a"," ","e","x","c","e","e","d","e","d"," ","f","o","r"," ","t","h","e"," ","d","a","y">>,
    <<"A","u","t","h","e","n","t","i","c","a","t","i","o","n"," ","f","a","i","l","e","d">>,
    <<"C","o","n","n","e","c","t","i","o","n"," ","t","i","m","e","o","u","t">>,
    <<"R","e","q","u","e","s","t"," ","t","i","m","e","d"," ","o","u","t">>,
    <<"S","e","r","v","i","c","e"," ","u","n","a","v","a","i","l","a","b","l","e">>,
    <<"d","e","a","d","l","i","n","e"," ","e","x","c","e","e","d","e","d">>,
    <<"t","i","m","e","o","u","t",":"," ","i","n","v","a","l","i","d"," ","a","p","i"," ","k","e","y">>,
    <<"N","e","t","w","o","r","k"," ","e","r","r","o","r",":"," ","p","e","r","m","i","s","s","i","o","n"," ","d","e","n","i","e","d">> }

ClsCauses ==
  { NoCause } \cup
  { [type |-> t, msg |-> m] :
      t \in { <<"E","x","c","e","p","t","i","o","n">>, <<"U","n","a","u","t","h","o","r","i","z","e","d">>, <<"T","i","m","e","o","u","t","E","r","r","o","r">> },
      m \in { <<"b","o","o","m">>, <<"I","n","v","a","l","i","d"," ","A","P","I"," ","k","e","y">>, <<"Q","u","o","t","a"," ","e","x","c","e","e","d","e","d">>, <<"C","o","n","n","e","c","t","i","o","n"," ","t","i","m","e","o","u","t">> } }

ClsErrors == [type : ClsTypes, msg : ClsMessages, cause : ClsCauses]

\* how a call ends: [kind, value, error], kind "none" while it has not ended
ResultNone == [kind |-> "none", value |-> NoValue, error |-> NoError]
Returned(value) == [kind |-> "return", value |-> value, error |-> NoError]
Raised(error)   == [kind |-> "raise", value |-> NoValue, error |-> error]

NoResponse == [responded |-> FALSE, text |-> NoText]

NotClassified == [done |-> FALSE, retryable |-> FALSE, api_key |-> FALSE]

RetryIdle ==
  /\ max_retries = 0 /\ base_delay = 0 /\ image_data = <<>> /\ pc = "off"
  /\ attempt = 0 /\ img = 0 /\ image_parts = 0 /\ llm_calls = 0 /\ sleeps = <<>> /\ status_log = <<>>
  /\ attempt_log = <<>> /\ trace = <<>> /\ cur_error = NoCause /\ cur_origin = NoCause
  /\ cur_response = NoResponse
  /\ result = ResultNone

MergeIdle == ics_strings = <<>> /\ merged = [kind |-> "none"] /\ uuid_next = 0

ClsIdle == cls_error = NoCause /\ cls_result = NotClassified

NotCalled == [kind |-> "none"]

\* no extraction has been made
NoEvents == [py |-> "off", items |-> <<>>]

BuildIdle == raw_events = NoEvents /\ built = NotCalled /\ final = NotCalled

PureIdle ==
  /\ tz_call = NotCalled /\ tz_result = NotCalled
  /\ ev_data = NotCalled /\ ev_result = NotCalled

\* the threads that may call ThemeManager
MaxThreads == 2
Threads == 1..MaxThreads

\* a thread that is in no ThemeManager call and has made none
NoCall == [pc |-> "idle", op |-> "none", arg |-> "", new |-> "", ret |-> "",
           seen |-> "", left |-> ""]

ThemeIdle ==
  /\ theme = "light" /\ theme_lock = 0 /\ th = [t \in Threads |-> NoCall]
  /\ th_calls = 0 /\ toggles = 0 /\ sets = 0

\* ThreadPoolExecutor(max_workers=2): the worker threads
Workers == 1..2

\* a worker thread with no task
FreeWorker == [pc |-> "free", decision |-> "none", last |-> "none"]

AppIdle ==
  /\ app = "none" /\ api_client = "None" /\ create_enabled = TRUE
  /\ settings_open = FALSE /\ warnings_open = {} /\ sigq = <<>> /\ pending = 0
  /\ wk = [w \in Workers |-> FreeWorker] /\ requests = 0 /\ none_calls = 0

UiIdle == ThemeIdle /\ AppIdle

InitClassify ==
  /\ cls_error \in ClsErrors
  /\ cls_result = NotClassified
  /\ RetryIdle
  /\ MergeIdle
  /\ BuildIdle
  /\ PureIdle
  /\ UiIdle

Classify ==
  /\ ~cls_result.done
  /\ cls_result' = [done |-> TRUE,
                    retryable |-> is_retryable_error(cls_error),
                    api_key |-> is_api_key_error(cls_error)]
  /\ UNCHANGED <<cls_error, retryVars, mergeVars, buildVars, pureVars, uiVars>>

NextClassify == Classify

SpecClassify == InitClassify /\ [][NextClassify]_vars

---------------------------------------------------------------------------
(* CalendarAPIClient.get_event_data as a state machine: Init draws the     *)
(* client's retry configuration and the images.  An attempt (one iteration *)
(* of the for loop) is a step per blocking call: the loop head with the    *)
(* "attempting" status, one step per image of _prepare_image_history, and  *)
(* the LLM call with everything that follows it (parsing, _handle_retry    *)
(* and its sleep).  What the file system, the upload service and the LLM   *)
(* do is drawn from the sets below.  The status callback is taken to       *)
(* return normally.                                                        *)

\* largest self.max_retries tried (config.py sets 5)
MaxRetriesBound == 5
\* largest number of images handed to the call
MaxImages == 1

\* self.base_delay, in seconds (config.py sets 1.0)
BaseDelays == {1, 6}

\* what genai.upload_file raises
UploadErrors ==
  { Exc(<<"E","x","c","e","p","t","i","o","n">>, <<"4","0","0"," ","A","P","I"," ","k","e","y"," ","e","x","p","i","r","e","d">>),
    Exc(<<"E","x","c","e","p","t","i","o","n">>, <<"A","P","I","_","K","E","Y","_","I","N","V","A","L","I","D">>),
    Exc(<<"P","e","r","m","i","s","s","i","o","n","D","e","n","i","e","d">>, <<"4","0","3"," ","P","e","r","m","i","s","s","i","o","n"," ","d","e","n","i","e","d">>),
    Exc(<<"C","o","n","n","e","c","t","i","o","n","E","r","r","o","r">>, <<"C","o","n","n","e","c","t","i","o","n"," ","t","i","m","e","o","u","t">>) }

\* what happens to one image: missing, gone before the upload, uploaded, refused
UploadOutcomes ==
  { [exists |-> FALSE, exists_again |-> FALSE, raises |-> FALSE, error |-> NoError],
    [exists |-> TRUE, exists_again |-> FALSE, raises |-> FALSE, error |-> NoError],
    [exists |-> TRUE, exists_again |-> TRUE, raises |-> FALSE, error |-> NoError] }
  \cup { [exists |-> TRUE, exists_again |-> TRUE, raises |-> TRUE, error |-> e] :
           e \in UploadErrors }

\* what chat.send_message raises
LlmErrors ==
  { Exc(<<"E","x","c","e","p","t","i","o","n">>, <<"4","0","0"," ","I","n","v","a","l","i","d"," ","A","P","I"," ","k","e","y">>),
    Exc(<<"E","x","c","e","p","t","i","o","n">>, <<"A","P","I"," ","k","e","y"," ","e","x","p","i","r","e","d">>),
    Exc(<<"T","i","m","e","o","u","t","E","r","r","o","r">>, <<"t","i","m","e","o","u","t",":"," ","i","n","v","a","l","i","d"," ","a","p","i"," ","k","e","y">>),
    Exc(<<"P","e","r","m","i","s","s","i","o","n","D","e","n","i","e","d">>, <<"4","0","3"," ","P","e","r","m","i","s","s","i","o","n"," ","d","e","n","i","e","d">>),
    Exc(<<"U","n","a","u","t","h","o","r","i","z","e","d">>, <<"b","o","o","m">>),
    Exc(<<"T","i","m","e","o","u","t","E","r","r","o","r">>, <<"R","e","q","u","e","s","t"," ","t","i","m","e","d"," ","o","u","t">>),
    Exc(<<"E","x","c","e","p","t","i","o","n">>, <<"5","0","3"," ","S","e","r","v","i","c","e"," ","u","n","a","v","a","i","l","a","b","l","e">>),
    Exc(<<"E","x","c","e","p","t","i","o","n">>, <<"b","o","o","m">>),
    Exc(<<"C","o","n","n","e","c","t","i","o","n","E","r","r","o","r">>, <<"N","e","t","w","o","r","k"," ","e","r","r","o","r",":"," ","q","u","o","t","a"," ","e","x","c","e","e","d","e","d">>),
    ExcFrom(<<"V","a","l","u","e","E","r","r","o","r">>, <<"r","e","q","u","e","s","t"," ","f","a","i","l","e","d">>, Exc(<<"E","x","c","e","p","t","i","o","n">>, <<"I","n","v","a","l","i","d"," ","A","P","I"," ","k","e","y">>)) }

\* response texts: JSON arrays, other JSON values, broken JSON, fenced or not
ResponseTexts ==
  { <<>>,
    <<" "," "," ">>,
    <<"[","]">>,
    <<"[","{","}","]">>,
    <<" ","[","{","\"","a","\"",":","1","}",","," ","{","\"","a","\"",":","2","}","]"," ","\n">>,
    <<"{","}">>,
    <<"{","\"","u","i","d","\"",":"," ","\"","u","\"","}">>,
    <<"\"","a","\"">>,
    <<"5">>,
    <<"1",".","5","e","3">>,
    <<"\"","a","\\","\"","b","\"">>,
    <<"{","\"","a","\"",":"," ","1",","," ","\"","a","\"",":"," ","2","}">>,
    <<"n","u","l","l">>,
    <<"t","r","u","e">>,
    <<"o","o","p","s">>,
    <<"[">>,
    <<"[","1",",","]">>,
    <<"[","1","]"," ","x">>,
    <<"BACKTICK","BACKTICK","BACKTICK","j","s","o","n","\n","[","{","}","]","\n","BACKTICK","BACKTICK","BACKTICK">>,
    <<"BACKTICK","BACKTICK","BACKTICK","\n","[","]","\n","BACKTICK","BACKTICK","BACKTICK">>,
    <<"BACKTICK","BACKTICK","BACKTICK","[","1","]","BACKTICK","BACKTICK","BACKTICK">>,
    <<"BACKTICK","BACKTICK","BACKTICK","j","s","o","n","\n","[","1","]">>,
    <<"BACKTICK","BACKTICK","BACKTICK","j","s","o","n","\n","{","}","\n","BACKTICK","BACKTICK","BACKTICK">>,
    <<"BACKTICK","BACKTICK","BACKTICK","j","s","o","n","\n","o","o","p","s","\n","BACKTICK","BACKTICK","BACKTICK">>,
    <<"BACKTICK","BACKTICK","BACKTICK","\n","BACKTICK","BACKTICK","BACKTICK">>,
    <<"BACKTICK","BACKTICK","BACKTICK">> }

NoMessage == [has_text |-> FALSE, text |-> <<>>, parts |-> <<>>]

\* the messages the service answers with: a flat .text, or typed parts
Messages ==
  { [has_text |-> TRUE, text |-> t, parts |-> <<>>] : t \in ResponseTexts }
  \cup
  { NoMessage,
    [has_text |-> FALSE, text |-> <<>>,
     parts |-> << [has_text |-> TRUE, text |-> <<"[","{","}">>],
                  [has_text |-> FALSE, text |-> <<>>],
                  [has_text |-> TRUE, text |-> <<"]">>] >>],
    [has_text |-> FALSE, text |-> <<>>,
     parts |-> << [has_text |-> FALSE, text |-> <<>>] >>] }

LlmOutcomes ==
  { [raises |-> TRUE, error |-> e, message |-> NoMessage] : e \in LlmErrors }
  \cup { [raises |-> FALSE, error |-> NoError, message |-> m] : m \in Messages }

\* None, the value `return None` gives
NoneValue == [kind |-> "None", len |-> 0, json |-> <<>>]

InitRetry ==
  /\ max_retries \in 0..MaxRetriesBound
  /\ base_delay \in BaseDelays
  /\ image_data \in { [i \in 1..n |-> i] : n \in 0..MaxImages }
  /\ pc = "idle"
  /\ attempt = 0 /\ img = 0 /\ image_parts = 0
  /\ llm_calls = 0 /\ sleeps = <<>> /\ status_log = <<>>
  /\ attempt_log = <<>> /\ trace = <<>>
  /\ cur_error = NoError /\ cur_origin = NoError /\ cur_response = NoResponse
  /\ result = ResultNone
  /\ ClsIdle
  /\ MergeIdle
  /\ BuildIdle
  /\ PureIdle
  /\ UiIdle

\* get_event_data is called: the prompt is built, the loop is entered
GetEventData ==
  /\ pc = "idle"
  /\ pc' = "loop"
  /\ attempt' = 0
  /\ UNCHANGED <<max_retries, base_delay, image_data, img, image_parts, llm_calls,
                 sleeps, status_log, attempt_log, trace, cur_error, cur_origin,
                 cur_response, result>>
  /\ UNCHANGED <<clsVars, mergeVars, buildVars, pureVars, uiVars>>

\* A plausible slip: the status is reported before the loop, so only the
\* first attempt announces itself.
BeginAttempt_StatusOnce ==
  /\ pc = "loop"
  /\ attempt < max_retries
  /\ status_log' = IF attempt = 0
                     THEN Append(status_log, Status("ATTEMPTING", attempt + 1, max_retries))
                     ELSE status_log
  /\ trace' = IF attempt = 0 THEN <<"status">> ELSE <<>>
  /\ img' = 1
  /\ image_parts' = 0
  /\ cur_error' = NoError /\ cur_origin' = NoError /\ cur_response' = NoResponse
  /\ pc' = IF image_data = <<>> THEN "api" ELSE "images"
  /\ UNCHANGED <<max_retries, base_delay, image_data, attempt, llm_calls, sleeps,
                 attempt_log, result>>
  /\ UNCHANGED <<clsVars, mergeVars, buildVars, pureVars, uiVars>>

\* The loop head and the first statement of the try block (lines 186-194):
\* status_callback(STATUS_ATTEMPTING); _prepare_image_history is entered
\* (`if not image_data: return []`).
BeginAttempt ==
  /\ pc = "loop"
  /\ attempt < max_retries
  /\ status_log' = Append(status_log, Status("ATTEMPTING", attempt + 1, max_retries))
  /\ trace' = <<"status">>
  /\ img' = 1
  /\ image_parts' = 0
  /\ cur_error' = NoError /\ cur_origin' = NoError /\ cur_response' = NoResponse
  /\ pc' = IF image_data = <<>> THEN "api" ELSE "images"
  /\ UNCHANGED <<max_retries, base_delay, image_data, attempt, llm_calls, sleeps,
                 attempt_log, result>>
  /\ UNCHANGED <<clsVars, mergeVars, buildVars, pureVars, uiVars>>

\* How an attempt that raised `error` goes on (lines 204-209):
\* `except CalendarAPIError: raise`, and
\* `except Exception as e: if not self._handle_retry(...): raise`.
\* Returns [ended, result, status, sleep, trace]: whether the call ends here.
except_clauses(error, a) ==
  IF IsCalendarAPIError(error)
    THEN [ended |-> TRUE, result |-> Raised(error), status |-> <<>>, sleep |-> <<>>,
          trace |-> <<>>]
  ELSE LET h == handle_retry(error, a)
       IN  IF h.raised
             THEN [ended |-> TRUE, result |-> Raised(h.error), status |-> h.status,
                   sleep |-> <<>>, trace |-> h.trace]
           ELSE IF ~h.ret
             THEN [ended |-> TRUE, result |-> Raised(error), status |-> h.status,
                   sleep |-> <<>>, trace |-> h.trace]
           ELSE [ended |-> FALSE, result |-> ResultNone, status |-> h.status,
                 sleep |-> h.sleep, trace |-> h.trace]

\* The service answered with a text that is empty or, after the code fence
\* is stripped, is not JSON.
InvalidResponse(response) ==
  response.responded
    /\ (response.text = <<>> \/ ~JsonLoads(StripFence(response.text)).ok)

\* the entry of attempt_log for an attempt that raised `error` (or did not),
\* and for which the service answered `response` (or did not)
LogEntry(raised, error, response) ==
  [raised |-> raised, retryable |-> raised /\ is_retryable_error(error),
   invalid_response |-> InvalidResponse(response)]

\* The attempt ends with `error` raised in the try block.
AttemptRaises(error, origin, response, tr) ==
  \E x \in {except_clauses(error, attempt)} :
    /\ cur_error' = error
    /\ cur_origin' = origin
    /\ trace' = trace \o tr \o x.trace
    /\ status_log' = status_log \o x.status
    /\ sleeps' = sleeps \o x.sleep
    /\ attempt_log' = Append(attempt_log, LogEntry(TRUE, error, response))
    /\ result' = x.result
    /\ pc' = IF x.ended THEN "done" ELSE "loop"
    /\ attempt' = IF x.ended THEN attempt ELSE attempt + 1

\* One pass of the image loop of _prepare_image_history (lines 251-259).
UploadImage ==
  /\ pc = "images"
  /\ \E up \in UploadOutcomes : \E u \in {image_pass(up)} :
       IF u.raised
         THEN /\ AttemptRaises(u.error, u.origin, NoResponse, <<"upload">>)
              /\ UNCHANGED <<img, image_parts, cur_response>>
         ELSE /\ img' = img + 1
              /\ image_parts' = image_parts + u.parts
              /\ trace' = IF u.called THEN Append(trace, "upload") ELSE trace
              /\ pc' = IF img = Len(image_data) THEN "api" ELSE "images"
              /\ UNCHANGED <<attempt, sleeps, status_log, attempt_log, cur_error,
                             cur_origin, cur_response, result>>
  /\ UNCHANGED <<max_retries, base_delay, image_data, llm_calls>>
  /\ UNCHANGED <<clsVars, mergeVars, buildVars, pureVars, uiVars>>

\* _call_api and what follows it in the iteration (lines 197-209).
CallApi ==
  /\ pc = "api"
  /\ \E llm \in LlmOutcomes : \E r \in {call_and_parse(llm)} :
       /\ llm_calls' = llm_calls + 1
       /\ cur_response' = r.response
       /\ IF r.raised
            THEN AttemptRaises(r.error, r.error, r.response, r.trace)
            ELSE /\ result' = Returned(r.events)
                 /\ pc' = "done"
                 /\ trace' = trace \o r.trace
                 /\ status_log' = status_log \o r.status
                 /\ attempt_log' = Append(attempt_log, LogEntry(FALSE, NoError, r.response))
                 /\ UNCHANGED <<attempt, sleeps, cur_error, cur_origin>>
  /\ UNCHANGED <<max_retries, base_delay, image_data, img, image_parts>>
  /\ UNCHANGED <<clsVars, mergeVars, buildVars, pureVars, uiVars>>

\* The loop ran out (lines 211-213): STATUS_FAILED, `return None`
LoopExit ==
  /\ pc = "loop"
  /\ attempt >= max_retries
  /\ status_log' = Append(status_log, Status("FAILED", 0, 0))
  /\ result' = Returned(NoneValue)
  /\ pc' = "done"
  /\ UNCHANGED <<max_retries, base_delay, image_data, attempt, img, image_parts,
                 llm_calls, sleeps, attempt_log, trace, cur_error, cur_origin,
                 cur_response>>
  /\ UNCHANGED <<clsVars, mergeVars, buildVars, pureVars, uiVars>>

NextRetry == GetEventData \/ BeginAttempt \/ UploadImage \/ CallApi \/ LoopExit

SpecRetry == InitRetry /\ [][NextRetry]_vars
---------------------------------------------------------------------------
(* core/ics_builder.py: combine_ics_strings.  An entry of ics_strings is   *)
(* None, a text Calendar.from_ical rejects, or a text it parses; a parsed  *)
(* calendar is what the code reads of it: property_items() and             *)
(* subcomponents.  A component is [name, tzid, uid, rest]: TZID and UID    *)
(* are absent or a non-empty text, rest stands for everything else it      *)
(* holds (DTSTART, SUMMARY, nested components, ...).  VEVENTs are direct   *)
(* children of VCALENDAR, as RFC 5545 has them.                            *)
(* rest is given as the (name, value) pairs property_items() yields for    *)
(* it, those of nested components (a VALARM, a STANDARD) included.         *)

\* largest number of entries of ics_strings
MaxDocs == 2
\* largest number of components in all the entries together
MaxComps == 2

Absent    == [has |-> FALSE, text |-> <<>>]
Value(t)  == [has |-> TRUE, text |-> t]

\* the n-th value uuid.uuid4() gives, as text: values drawn at different
\* times differ
uuid4(n) == <<"u","u","i","d","4","-">> \o IntToStr(n)

UID_SUFFIX == <<"@","n","l","-","c","a","l","e","n","d","a","r">>

ICS_PRODID == <<"-","/","/","N","L"," ","C","a","l","e","n","d","a","r"," ","C","r","e","a","t","o","r","/","/","E","N">>

TZ_LONDON == <<"E","u","r","o","p","e","/","L","o","n","d","o","n">>
TZ_ANON_0 == <<"_","_","a","n","o","n","_","t","z","_","0">>

Component(name, tzid, uid, rest) ==
  [name |-> name, tzid |-> tzid, uid |-> uid, rest |-> rest]

\* what a component holds besides TZID and UID
REST_X == << <<"SUMMARY", <<"x">>>> >>
REST_GMT == << <<"TZNAME", <<"G","M","T">>>> >>
REST_BST == << <<"TZNAME", <<"B","S","T">>>> >>
\* ... an event with a description and a reminder, as _create_ics_event makes
REST_ALARM ==
  << <<"SUMMARY", <<"x">>>>, <<"DTSTART", <<"2","0","2","4","0","1","0","1","T","1","0","0","0","0","0","Z">>>>,
     <<"DTEND", <<"2","0","2","4","0","1","0","1","T","1","1","0","0","0","0","Z">>>>, <<"DTSTAMP", <<"2","0","2","4","0","1","0","1","T","0","9","0","0","0","0","Z">>>>,
     <<"DESCRIPTION", <<"a","b","o","u","t"," ","x">>>>,
     <<"BEGIN", <<"V","A","L","A","R","M">>>>, <<"ACTION", <<"D","I","S","P","L","A","Y">>>>, <<"END", <<"V","A","L","A","R","M">>>> >>

\* the VTIMEZONE components of the inputs: with and without TZID, two
\* different definitions of the same TZID
TimezoneComponents ==
  { Component("VTIMEZONE", Absent, Absent, REST_GMT),
    Component("VTIMEZONE", Value(TZ_LONDON), Absent, REST_GMT),
    Component("VTIMEZONE", Value(TZ_LONDON), Absent, REST_BST),
    Component("VTIMEZONE", Value(TZ_ANON_0), Absent, REST_GMT) }

\* the VEVENT components of the inputs: without UID, with a foreign UID,
\* with the UID an earlier build or merge of this process generated
EventComponents ==
  { Component("VEVENT", Absent, Absent, REST_X),
    Component("VEVENT", Absent, Value(<<"a">>), REST_X),
    Component("VEVENT", Absent, Value(<<"a">>), REST_ALARM),
    Component("VEVENT", Absent, Value(uuid4(0) \o UID_SUFFIX), REST_X) }

OtherComponents ==
  { Component("VTODO", Absent, Value(<<"a">>), REST_X) }

Components == TimezoneComponents \cup EventComponents \cup OtherComponents

\* the properties the VCALENDAR of an input holds itself
PropLists ==
  { <<>>,
    << <<"VERSION", <<"2",".","0">>>>, <<"PRODID", <<"-","/","/","F","i","r","s","t","/","/","E","N">>>> >>,
    << <<"PRODID", <<"-","/","/","S","e","c","o","n","d","/","/","E","N">>>>, <<"METHOD", <<"P","U","B","L","I","S","H">>>> >>,
    << <<"PRODID", <<"-","/","/","S","e","c","o","n","d","/","/","E","N">>>>, <<"DESCRIPTION", <<"M","y"," ","c","a","l","e","n","d","a","r">>>> >> }

NoneEntry == [kind |-> "None", props |-> <<>>, comps |-> <<>>]
\* a text Calendar.from_ical raises on
BadEntry  == [kind |-> "unparseable", props |-> <<>>, comps |-> <<>>]
PARSE_ERROR == <<"C","o","n","t","e","n","t"," ","l","i","n","e"," ","c","o","u","l","d"," ","n","o","t"," ","b","e"," ","p","a","r","s","e","d"," ","i","n","t","o"," ","p","a","r","t","s">>

\* an entry that parses, before its components are known
EmptyCalendars == { [kind |-> "calendar", props |-> q, comps |-> <<>>] : q \in PropLists }

\* the number of components in all the entries together
RECURSIVE TotalComps(_)
TotalComps(strings) ==
  IF strings = <<>> THEN 0 ELSE Len(Head(strings).comps) + TotalComps(Tail(strings))

NoDocument == [kind |-> "none"]
MergeRaised(msg) == [kind |-> "raise", error |-> Exc(<<"V","a","l","u","e","E","r","r","o","r">>, msg)]
MergeReturned(props, comps) == [kind |-> "document", props |-> props, comps |-> comps]

RECURSIVE parse_from(_, _, _)

\* A plausible slip: a None entry is taken for a document that does not parse.
parse_from_NoneFails(strings, i, calendars) ==
  IF i > Len(strings)
    THEN [raised |-> FALSE, error |-> NoError, calendars |-> calendars]
  ELSE IF strings[i].kind \in {"None", "unparseable"}
    THEN [raised |-> TRUE,
          error |-> ExcFrom(<<"V","a","l","u","e","E","r","r","o","r">>,
                            <<"F","a","i","l","e","d"," ","t","o"," ","p","a","r","s","e"," ","I","C","S"," ","p","a","y","l","o","a","d"," ","a","t"," ","i","n","d","e","x"," ">> \o IntToStr(i - 1)
                              \o <<":"," ">> \o PARSE_ERROR,
                            Exc(<<"V","a","l","u","e","E","r","r","o","r">>, PARSE_ERROR)),
          calendars |-> <<>>]
  ELSE parse_from(strings, i + 1, Append(calendars, strings[i]))

\* A plausible slip: an entry that does not parse is skipped like None.
parse_from_SkipBad(strings, i, calendars) ==
  IF i > Len(strings)
    THEN [raised |-> FALSE, error |-> NoError, calendars |-> calendars]
  ELSE IF strings[i].kind \in {"None", "unparseable"}
    THEN parse_from(strings, i + 1, calendars)
  ELSE parse_from(strings, i + 1, Append(calendars, strings[i]))

\* _parse_ics_strings from entry i on: [raised, error, calendars]
parse_from(strings, i, calendars) ==
  IF i > Len(strings)
    THEN [raised |-> FALSE, error |-> NoError, calendars |-> calendars]
  ELSE IF strings[i].kind = "None"
    THEN parse_from(strings, i + 1, calendars)
  ELSE IF strings[i].kind = "unparseable"
    THEN [raised |-> TRUE,
          error |-> ExcFrom(<<"V","a","l","u","e","E","r","r","o","r">>,
                            <<"F","a","i","l","e","d"," ","t","o"," ","p","a","r","s","e"," ","I","C","S"," ","p","a","y","l","o","a","d"," ","a","t"," ","i","n","d","e","x"," ">> \o IntToStr(i - 1)
                              \o <<":"," ">> \o PARSE_ERROR,
                            Exc(<<"V","a","l","u","e","E","r","r","o","r">>, PARSE_ERROR)),
          calendars |-> <<>>]
  ELSE parse_from(strings, i + 1, Append(calendars, strings[i]))

parse_ics_strings(strings) == parse_from(strings, 1, <<>>)

\* merged_calendar.get(prop) is None
PropMissing(props, name) == \A k \in 1..Len(props) : props[k][1] # name

\* `if merged_calendar.get(prop) is None: merged_calendar.add(prop, value)`
AddIfMissing(props, name, value) ==
  IF PropMissing(props, name) THEN Append(props, <<name, value>>) ELSE props

\* the inner loop of lines 341-343 from item k on: an item is added when
\* neither props nor an earlier item has its name
CopyProps(props, items, k) ==
  LET added == { i \in k..Len(items) :
                   /\ PropMissing(props, items[i][1])
                   /\ \A j \in k..(i - 1) : items[j][1] # items[i][1] }
      Nth(n) == CHOOSE i \in added : Cardinality({j \in added : j < i}) = n - 1
  IN  props \o [n \in 1..Cardinality(added) |-> items[Nth(n)]]

\* component.name as text
NameText(name) ==
  CASE name = "VEVENT"    -> <<"V","E","V","E","N","T">>
    [] name = "VTIMEZONE" -> <<"V","T","I","M","E","Z","O","N","E">>
    [] OTHER              -> <<"V","T","O","D","O">>

\* Component.property_items() (icalendar, recursive=True) of one
\* subcomponent: BEGIN, its properties, those of its subcomponents, END
component_items(c) ==
  << <<"BEGIN", NameText(c.name)>> >>
    \o (IF c.tzid.has THEN << <<"TZID", c.tzid.text>> >> ELSE <<>>)
    \o (IF c.uid.has THEN << <<"UID", c.uid.text>> >> ELSE <<>>)
    \o c.rest
    \o << <<"END", NameText(c.name)>> >>

RECURSIVE components_items(_, _)
components_items(comps, k) ==
  IF k > Len(comps) THEN <<>>
  ELSE component_items(comps[k]) \o components_items(comps, k + 1)

\* calendar.property_items() as line 341 calls it: the BEGIN line, the
\* calendar's own properties, the items of every subcomponent, the END line
property_items(calendar) ==
  << <<"BEGIN", <<"V","C","A","L","E","N","D","A","R">>>> >>
    \o calendar.props
    \o components_items(calendar.comps, 1)
    \o << <<"END", <<"V","C","A","L","E","N","D","A","R">>>> >>

RECURSIVE CopyAllProps(_, _, _)
CopyAllProps(props, calendars, i) ==
  IF i > Len(calendars) THEN props
  ELSE CopyAllProps(CopyProps(props, property_items(calendars[i]), 1), calendars, i + 1)

\* _create_merged_calendar: the properties of the merged calendar
create_merged_calendar(calendars) ==
  LET copied == CopyAllProps(<<>>, calendars, 1)
      p1 == AddIfMissing(copied, "PRODID", ICS_PRODID)
      p2 == AddIfMissing(p1, "VERSION", <<"2",".","0">>)
  IN  AddIfMissing(p2, "CALSCALE", <<"G","R","E","G","O","R","I","A","N">>)

\* A plausible slip: a VEVENT that has a UID keeps it.
merge_component_KeepSourceUid(m, component) ==
  IF component.name = "VTIMEZONE"
    THEN LET tzid == IF component.tzid.has /\ component.tzid.text # <<>>
                       THEN component.tzid.text
                       ELSE <<"_","_","a","n","o","n","_","t","z","_">> \o IntToStr(Cardinality(m.seen_timezones))
         IN  IF tzid \in m.seen_timezones THEN m
             ELSE [m EXCEPT !.seen_timezones = @ \cup {tzid},
                            !.comps = Append(@, component)]
  ELSE IF component.name = "VEVENT" /\ ~component.uid.has
    THEN [m EXCEPT !.comps = Append(@, [component EXCEPT
                                !.uid = Value(uuid4(m.uuid) \o UID_SUFFIX)]),
                   !.uuid = @ + 1]
  ELSE [m EXCEPT !.comps = Append(@, component)]

\* A plausible slip: the last add_component is missing, so a component that
\* is neither VTIMEZONE nor VEVENT is dropped.
merge_component_DropOthers(m, component) ==
  IF component.name = "VTIMEZONE"
    THEN LET tzid == IF component.tzid.has /\ component.tzid.text # <<>>
                       THEN component.tzid.text
                       ELSE <<"_","_","a","n","o","n","_","t","z","_">> \o IntToStr(Cardinality(m.seen_timezones))
         IN  IF tzid \in m.seen_timezones THEN m
             ELSE [m EXCEPT !.seen_timezones = @ \cup {tzid},
                            !.comps = Append(@, component)]
  ELSE IF component.name = "VEVENT"
    THEN [m EXCEPT !.comps = Append(@, [component EXCEPT
                                !.uid = Value(uuid4(m.uuid) \o UID_SUFFIX)]),
                   !.uuid = @ + 1]
  ELSE m

\* One pass of the inner loop of _add_components_to_merged (lines 364-384)
\* on m = [comps, seen_timezones, uuid]: the components merged so far, the
\* TZID keys seen, the UUIDs drawn.
merge_component(m, component) ==
  IF component.name = "VTIMEZONE"
    THEN LET tzid == IF component.tzid.has /\ component.tzid.text # <<>>
                       THEN component.tzid.text
                       ELSE <<"_","_","a","n","o","n","_","t","z","_">> \o IntToStr(Cardinality(m.seen_timezones))
         IN  IF tzid \in m.seen_timezones THEN m
             ELSE [m EXCEPT !.seen_timezones = @ \cup {tzid},
                            !.comps = Append(@, component)]
  ELSE IF component.name = "VEVENT"
    THEN [m EXCEPT !.comps = Append(@, [component EXCEPT
                                !.uid = Value(uuid4(m.uuid) \o UID_SUFFIX)]),
                   !.uuid = @ + 1]
  ELSE [m EXCEPT !.comps = Append(@, component)]

RECURSIVE MergeComponents(_, _, _)
MergeComponents(m, comps, k) ==
  IF k > Len(comps) THEN m
  ELSE MergeComponents(merge_component(m, comps[k]), comps, k + 1)

RECURSIVE MergeCalendars(_, _, _)
MergeCalendars(m, calendars, i) ==
  IF i > Len(calendars) THEN m
  ELSE MergeCalendars(MergeComponents(m, calendars[i].comps, 1), calendars, i + 1)

\* _add_components_to_merged, with `uuid` UUIDs drawn before
add_components_to_merged(calendars, uuid) ==
  MergeCalendars([comps |-> <<>>, seen_timezones |-> {}, uuid |-> uuid], calendars, 1)

\* A plausible slip: the test for an empty list is left out.
combine_ics_strings_NoEmptyTest(strings, uuid) ==
  LET parsed == parse_ics_strings(strings)
  IN  IF parsed.raised
        THEN [outcome |-> [kind |-> "raise", error |-> parsed.error], uuid |-> uuid]
      ELSE IF parsed.calendars = <<>>
        THEN [outcome |-> MergeRaised(<<"N","o"," ","p","a","r","s","e","a","b","l","e"," ","I","C","S"," ","d","a","t","a"," ","p","r","o","v","i","d","e","d",".">>), uuid |-> uuid]
      ELSE LET m == add_components_to_merged(parsed.calendars, uuid)
           IN  [outcome |-> MergeReturned(create_merged_calendar(parsed.calendars),
                                          m.comps),
                uuid |-> m.uuid]

\* combine_ics_strings: [outcome, uuid]
combine_ics_strings(strings, uuid) ==
  IF strings = <<>>
    THEN [outcome |-> MergeRaised(<<"N","o"," ","I","C","S"," ","d","a","t","a"," ","p","r","o","v","i","d","e","d"," ","t","o"," ","c","o","m","b","i","n","e",".">>), uuid |-> uuid]
  ELSE LET parsed == parse_ics_strings(strings)
       IN  IF parsed.raised
             THEN [outcome |-> [kind |-> "raise", error |-> parsed.error], uuid |-> uuid]
           ELSE IF parsed.calendars = <<>>
             THEN [outcome |-> MergeRaised(<<"N","o"," ","p","a","r","s","e","a","b","l","e"," ","I","C","S"," ","d","a","t","a"," ","p","r","o","v","i","d","e","d",".">>),
                   uuid |-> uuid]
           ELSE LET m == add_components_to_merged(parsed.calendars, uuid)
                IN  [outcome |-> MergeReturned(create_merged_calendar(parsed.calendars),
                                               m.comps),
                     uuid |-> m.uuid]

\* The caller has no document yet; one UUID was drawn earlier in the process.
InitMerge ==
  /\ ics_strings = <<>>
  /\ merged = NoDocument
  /\ uuid_next = 1
  /\ ClsIdle
  /\ RetryIdle
  /\ BuildIdle
  /\ PureIdle
  /\ UiIdle

\* The caller collects one more entry for the list: None, a text that does
\* not parse, or a calendar (its components follow).
AddEntry ==
  /\ merged = NoDocument
  /\ Len(ics_strings) < MaxDocs
  /\ \E e \in {NoneEntry, BadEntry} \cup EmptyCalendars :
       ics_strings' = Append(ics_strings, e)
  /\ UNCHANGED <<merged, uuid_next>>
  /\ UNCHANGED <<clsVars, retryVars, buildVars, pureVars, uiVars>>

\* The calendar collected last holds one more component.
AddComponent ==
  /\ merged = NoDocument
  /\ ics_strings # <<>>
  /\ ics_strings[Len(ics_strings)].kind = "calendar"
  /\ TotalComps(ics_strings) < MaxComps
  /\ \E c \in Components :
       ics_strings' = [ics_strings EXCEPT ![Len(ics_strings)].comps = Append(@, c)]
  /\ UNCHANGED <<merged, uuid_next>>
  /\ UNCHANGED <<clsVars, retryVars, buildVars, pureVars, uiVars>>

\* combine_ics_strings(ics_strings) is called
Combine ==
  /\ merged = NoDocument
  /\ \E c \in {combine_ics_strings(ics_strings, uuid_next)} :
       /\ merged' = c.outcome
       /\ uuid_next' = c.uuid
  /\ UNCHANGED ics_strings
  /\ UNCHANGED <<clsVars, retryVars, buildVars, pureVars, uiVars>>

NextMerge == AddEntry \/ AddComponent \/ Combine

SpecMerge == InitMerge /\ [][NextMerge]_vars

---------------------------------------------------------------------------
(* Properties of the retry classifier and of get_event_data.               *)

\* the lower-cased text contains one of the patterns
PatternIn(patterns, text) ==
  \E k \in 1..Len(patterns) : Contains(Lower(text), patterns[k])

\* the error's message or type name, or that of its direct __cause__,
\* contains a non-retryable pattern
MatchesNonRetryable(e) ==
  \/ PatternIn(NON_RETRYABLE_ERROR_PATTERNS, e.msg)
  \/ PatternIn(NON_RETRYABLE_ERROR_PATTERNS, e.type)
  \/ HasCause(e) /\ PatternIn(NON_RETRYABLE_ERROR_PATTERNS, e.cause.msg)
  \/ HasCause(e) /\ PatternIn(NON_RETRYABLE_ERROR_PATTERNS, e.cause.type)

\* the error's message or type name contains a retryable pattern
MatchesRetryable(e) ==
  PatternIn(RETRYABLE_ERROR_PATTERNS, e.msg) \/ PatternIn(RETRYABLE_ERROR_PATTERNS, e.type)

\* the latest attempt is over and raised an error
AttemptFailed == pc \in {"loop", "done"} /\ attempt_log # <<>> /\ cur_error # NoError

\* the latest attempt is over and the service answered it
AttemptAnswered == pc \in {"loop", "done"} /\ attempt_log # <<>> /\ cur_response.responded

NoSleepInAttempt == \A i \in 1..Len(trace) : trace[i] # "sleep"

\* every attempt of the log failed with an error classified retryable
AllRetryableFailures(log) == \A i \in 1..Len(log) : log[i].raised /\ log[i].retryable

\* the attempts before the latest one
EarlierAttempts == SubSeq(attempt_log, 1, Len(attempt_log) - 1)

\* C1: an attempt that raises an error whose message contains an API-key
\* pattern ends the call at once with a CalendarAPIError, at any attempt
\* index: nothing follows the failed upload or LLM call in that attempt (no
\* status, no sleep, and no LLM call after a failed upload), and no further
\* attempt is made.
C1_KeyErrorEndsCall ==
  (AttemptFailed /\ PatternIn(API_KEY_ERROR_PATTERNS, cur_origin.msg)) =>
    /\ pc = "done"
    /\ result.kind = "raise"
    /\ result.error.type = <<"C","a","l","e","n","d","a","r","A","P","I","E","r","r","o","r">>
    /\ NoSleepInAttempt
    /\ Len(sleeps) = Len(attempt_log) - 1
    /\ trace[Len(trace)] \in {"upload", "llm"}
    /\ trace[Len(trace)] = "upload" => \A i \in 1..Len(trace) : trace[i] # "llm"

\* C1 happens: the LLM call of a later attempt (after a backoff sleep)
\* raised an API-key error and the call ended with a CalendarAPIError
C1_Witness ==
  /\ pc = "done"
  /\ attempt >= 1
  /\ sleeps # <<>>
  /\ PatternIn(API_KEY_ERROR_PATTERNS, cur_origin.msg)
  /\ result.kind = "raise"
  /\ result.error.type = <<"C","a","l","e","n","d","a","r","A","P","I","E","r","r","o","r">>

\* C2: when every attempt failed with an error classified retryable, the
\* call made exactly max_retries attempts (LLM calls) and ended by raising
\* RetryExhaustedError with attempts = max_retries and last_error = the
\* error of the final attempt; while fewer than max_retries attempts have
\* failed so, the loop goes on to the next attempt.  (A call with
\* max_retries = 0 makes no attempt at all.)
C2_ExhaustionAfterMaxRetries ==
  /\ (pc = "done" /\ attempt_log # <<>> /\ AllRetryableFailures(attempt_log)) =>
       /\ Len(attempt_log) = max_retries
       /\ llm_calls = max_retries
       /\ result.kind = "raise"
       /\ result.error.type = <<"R","e","t","r","y","E","x","h","a","u","s","t","e","d","E","r","r","o","r">>
       /\ result.error.attempts = max_retries
       /\ result.error.last_error = cur_error
  /\ (pc = "loop" /\ attempt_log # <<>> /\ AllRetryableFailures(attempt_log)) =>
       /\ attempt = Len(attempt_log)
       /\ attempt < max_retries
       /\ Len(sleeps) = attempt

\* C2 happens: several attempts, all failed retryably, the call has ended
C2_Witness ==
  /\ pc = "done"
  /\ max_retries >= 3
  /\ Len(attempt_log) = max_retries
  /\ AllRetryableFailures(attempt_log)
  /\ result.error.type = <<"R","e","t","r","y","E","x","h","a","u","s","t","e","d","E","r","r","o","r">>

\* the text is JSON once the code fence is stripped
ValidJson(text) == text # <<>> /\ JsonLoads(StripFence(text)).ok

\* ... and is a JSON value that has a length: an array, an object, a string
SizedJson(text) ==
  text # <<>> /\ JsonLoads(StripFence(text)).ok
              /\ JsonLoads(StripFence(text)).kind \in JsonSized

\* the call returned what the latest response parses to, after one LLM call
\* per attempt
ReturnedLatestResponse ==
  /\ pc = "done"
  /\ result.kind = "return"
  /\ result.value.json = StripFence(cur_response.text)
  /\ result.value.kind = JsonLoads(StripFence(cur_response.text)).kind
  /\ llm_calls = Len(attempt_log)
  /\ Len(attempt_log) <= max_retries

\* C3 as stated: after k < max_retries retryable failures, an attempt that
\* gets a valid JSON response makes the call return what it parses to,
\* after exactly k+1 LLM calls.
C3_Original ==
  (AttemptAnswered /\ ValidJson(cur_response.text)
     /\ AllRetryableFailures(EarlierAttempts)) => ReturnedLatestResponse

\* C3 as amended: the same for a response that is a JSON array, object or
\* string (a value len() accepts); a bare number, true, false or null
\* fails the attempt at len(events).
C3_SizedJsonReturned ==
  (AttemptAnswered /\ SizedJson(cur_response.text)
     /\ AllRetryableFailures(EarlierAttempts)) => ReturnedLatestResponse

\* C3 happens: two retryable failures, then a JSON array, returned
C3_Witness ==
  /\ pc = "done"
  /\ Len(attempt_log) = 3
  /\ AllRetryableFailures(EarlierAttempts)
  /\ cur_response.responded
  /\ JsonLoads(StripFence(cur_response.text)).kind = "array"
  /\ result.kind = "return"
  /\ llm_calls = 3

\* C4: an attempt that raises an error classified non-retryable (and not an
\* API-key error) ends the call at once by re-raising that very error, with
\* no sleep and no further attempt, on every attempt index: on the last one
\* too the result is that error, not RetryExhaustedError.
C4_NonRetryableReraised ==
  (AttemptFailed /\ ~is_retryable_error(cur_error) /\ ~is_api_key_error(cur_error)) =>
    /\ pc = "done"
    /\ result = Raised(cur_error)
    /\ result.error.type # <<"R","e","t","r","y","E","x","h","a","u","s","t","e","d","E","r","r","o","r">>
    /\ NoSleepInAttempt
    /\ Len(sleeps) = Len(attempt_log) - 1

\* C4 happens: the LLM call of the last attempt raised a non-retryable error
C4_Witness ==
  /\ pc = "done"
  /\ max_retries >= 2
  /\ attempt = max_retries - 1
  /\ cur_error # NoError
  /\ ~IsCalendarAPIError(cur_error)
  /\ ~is_retryable_error(cur_error)
  /\ ~is_api_key_error(cur_error)
  /\ result = Raised(cur_error)

\* C5: is_retryable_error answers False for every error whose message or
\* type name, or that of its direct __cause__, contains a non-retryable
\* pattern, also when the error contains a retryable pattern as well.
C5_NonRetryablePrecedence ==
  (cls_result.done /\ MatchesNonRetryable(cls_error)) => ~cls_result.retryable

\* C5 happens: an error with both kinds of pattern was classified
C5_Witness ==
  /\ cls_result.done
  /\ ~IsCalendarAPIError(cls_error)
  /\ MatchesNonRetryable(cls_error)
  /\ MatchesRetryable(cls_error)
  /\ ~cls_result.retryable

\* C6: is_retryable_error answers True for every error that is not a
\* CalendarAPIError and matches no non-retryable pattern (in its message or
\* type name or those of its direct __cause__), whether or not it matches a
\* retryable pattern.
C6_UnknownRetriedByDefault ==
  (cls_result.done /\ ~IsCalendarAPIError(cls_error) /\ ~MatchesNonRetryable(cls_error))
    => cls_result.retryable

\* C6 happens: an error that matches no pattern at all was classified
C6_Witness ==
  /\ cls_result.done
  /\ ~IsCalendarAPIError(cls_error)
  /\ ~MatchesNonRetryable(cls_error)
  /\ ~MatchesRetryable(cls_error)
  /\ cls_error.msg # <<>>
  /\ cls_result.retryable

\* C7: whatever get_event_data returns as the events of a successful
\* attempt is a JSON array.
C7_ReturnsOnlyArrays ==
  (pc = "done" /\ result.kind = "return" /\ result.value.kind # "None")
    => result.value.kind = "array"

\* C8 as stated: once an attempt got a response that is empty or not JSON,
\* the call ends either with a successful return or in RetryExhaustedError.
C8_Original ==
  (pc = "done" /\ \E i \in 1..Len(attempt_log) : attempt_log[i].invalid_response) =>
    \/ result.kind = "return"
    \/ result.kind = "raise" /\ result.error.type = <<"R","e","t","r","y","E","x","h","a","u","s","t","e","d","E","r","r","o","r">>

\* C8 as amended: an attempt whose response text is empty or not JSON after
\* code-fence stripping yields no return; it fails with a ValueError that
\* is classified retryable, and the call goes on to the next attempt after
\* a sleep or, when that was the last attempt, ends in RetryExhaustedError.
C8_InvalidResponseRetried ==
  (AttemptAnswered /\ InvalidResponse(cur_response)) =>
    /\ result.kind # "return"
    /\ cur_error.type = <<"V","a","l","u","e","E","r","r","o","r">>
    /\ is_retryable_error(cur_error)
    /\ \/ /\ pc = "loop"
          /\ attempt < max_retries
          /\ trace[Len(trace)] = "sleep"
       \/ /\ pc = "done"
          /\ Len(attempt_log) = max_retries
          /\ result.kind = "raise"
          /\ result.error.type = <<"R","e","t","r","y","E","x","h","a","u","s","t","e","d","E","r","r","o","r">>
          /\ result.error.last_error = cur_error

\* C8 happens: a response that is not JSON on an early attempt, retried
C8_Witness ==
  /\ pc = "loop"
  /\ cur_response.responded
  /\ cur_response.text # <<>>
  /\ ~JsonLoads(StripFence(cur_response.text)).ok
  /\ cur_error.type = <<"V","a","l","u","e","E","r","r","o","r">>
  /\ sleeps # <<>>

---------------------------------------------------------------------------
(* Properties of combine_ics_strings.                                      *)

\* the components of the entries that parse, in input order
RECURSIVE InputComponents(_)
InputComponents(strings) ==
  IF strings = <<>> THEN <<>>
  ELSE (IF Head(strings).kind = "calendar" THEN Head(strings).comps ELSE <<>>)
         \o InputComponents(Tail(strings))

IsVEvent(c) == c.name = "VEVENT"
IsVTimezone(c) == c.name = "VTIMEZONE"

\* the UIDs of the VEVENTs of the input
InputEventUids ==
  { InputComponents(ics_strings)[k].uid.text :
      k \in { j \in 1..Len(InputComponents(ics_strings)) :
                /\ IsVEvent(InputComponents(ics_strings)[j])
                /\ InputComponents(ics_strings)[j].uid.has } }

\* the UIDs uuid4 generated in this merge
FreshUids == { uuid4(n) \o UID_SUFFIX : n \in 1..(uuid_next - 1) }

\* C9: every VEVENT of the merged document carries a UID generated in the
\* merge, '<uuid4>@nl-calendar'; these UIDs are pairwise distinct and none
\* is the UID of an input VEVENT, also when two inputs carry the same UID.
C9_EventUidsRegenerated ==
  merged.kind = "document" =>
    LET events == SelectSeq(merged.comps, IsVEvent)
    IN  /\ \A i \in 1..Len(events) :
             /\ events[i].uid.has
             /\ events[i].uid.text \in FreshUids
             /\ EndsWith(events[i].uid.text, UID_SUFFIX)
             /\ events[i].uid.text \notin InputEventUids
        /\ \A i, j \in 1..Len(events) : i # j => events[i].uid.text # events[j].uid.text

\* C9 happens: two input VEVENTs with the same UID, in two documents, merged
C9_Witness ==
  /\ merged.kind = "document"
  /\ Len(ics_strings) = 2
  /\ Len(SelectSeq(merged.comps, IsVEvent)) = 2
  /\ \A k \in 1..2 :
       /\ ics_strings[k].kind = "calendar"
       /\ Len(ics_strings[k].comps) = 1
       /\ IsVEvent(ics_strings[k].comps[1])
       /\ ics_strings[k].comps[1].uid = Value(<<"a">>)

\* C10: for every TZID a VTIMEZONE of the input carries, the merged document
\* holds exactly one VTIMEZONE with that TZID, and it is the first one of
\* the input (documents in list order, components in document order).
C10_FirstTimezoneKept ==
  merged.kind = "document" =>
    LET input == InputComponents(ics_strings)
    IN  \A k \in 1..Len(input) :
          (IsVTimezone(input[k]) /\ input[k].tzid.has) =>
            LET SameTzid(c) == IsVTimezone(c) /\ c.tzid = input[k].tzid
            IN  SelectSeq(merged.comps, SameTzid) = << Head(SelectSeq(input, SameTzid)) >>


---------------------------------------------------------------------------
(* Python values of the event data: None or a str (a key of a dict may     *)
(* also be absent).                                                        *)

PyNone   == [py |-> "None", text |-> <<>>]
NoKey    == [py |-> "absent", text |-> <<>>]
Str(t)   == [py |-> "str", text |-> t]

\* bool(v): None and the empty string are false
Truthy(v) == v.py = "str" /\ v.text # <<>>

\* str(v), as an f-string and vText(str(...)) format a value
PyStr(v) == IF v.py = "str" THEN v.text ELSE <<"N","o","n","e">>

\* str.upper
RECURSIVE Upper(_)
Upper(s) ==
  IF s = <<>> THEN <<>>
  ELSE (IF \E i \in 1..Len(LowerLetters) : LowerLetters[i] = Head(s)
          THEN <<UpperLetters[CHOOSE i \in 1..Len(LowerLetters) : LowerLetters[i] = Head(s)]>>
          ELSE <<Head(s)>>) \o Upper(Tail(s))

---------------------------------------------------------------------------
(* core/timezone_utils.py: resolve_timezone.  A zone is [zone, lib, utc]:  *)
(* its name, the library that made it, and its offset from UTC in minutes  *)
(* (standard time; daylight saving is left out).  pytz, dateutil and       *)
(* tzlocal are the environment: the names they know are listed here.       *)

ABBR_TO_TZ ==
  << <<<<"E","S","T">>, <<"A","m","e","r","i","c","a","/","N","e","w","_","Y","o","r","k">>>>, <<<<"E","D","T">>, <<"A","m","e","r","i","c","a","/","N","e","w","_","Y","o","r","k">>>>,
     <<<<"C","S","T">>, <<"A","m","e","r","i","c","a","/","C","h","i","c","a","g","o">>>>, <<<<"C","D","T">>, <<"A","m","e","r","i","c","a","/","C","h","i","c","a","g","o">>>>,
     <<<<"M","S","T">>, <<"A","m","e","r","i","c","a","/","D","e","n","v","e","r">>>>, <<<<"M","D","T">>, <<"A","m","e","r","i","c","a","/","D","e","n","v","e","r">>>>,
     <<<<"P","S","T">>, <<"A","m","e","r","i","c","a","/","L","o","s","_","A","n","g","e","l","e","s">>>>, <<<<"P","D","T">>, <<"A","m","e","r","i","c","a","/","L","o","s","_","A","n","g","e","l","e","s">>>>,
     <<<<"G","M","T">>, <<"E","u","r","o","p","e","/","L","o","n","d","o","n">>>>, <<<<"B","S","T">>, <<"E","u","r","o","p","e","/","L","o","n","d","o","n">>>>,
     <<<<"C","E","T">>, <<"E","u","r","o","p","e","/","P","a","r","i","s">>>>, <<<<"C","E","S","T">>, <<"E","u","r","o","p","e","/","P","a","r","i","s">>>>,
     <<<<"E","E","T">>, <<"E","u","r","o","p","e","/","A","t","h","e","n","s">>>>, <<<<"E","E","S","T">>, <<"E","u","r","o","p","e","/","A","t","h","e","n","s">>>>,
     <<<<"A","E","S","T">>, <<"A","u","s","t","r","a","l","i","a","/","S","y","d","n","e","y">>>>, <<<<"A","E","D","T">>, <<"A","u","s","t","r","a","l","i","a","/","S","y","d","n","e","y">>>>,
     <<<<"I","S","T">>, <<"A","s","i","a","/","K","o","l","k","a","t","a">>>> >>

\* the zones pytz.timezone knows, with their offsets
PYTZ_ZONES ==
  << <<<<"A","m","e","r","i","c","a","/","N","e","w","_","Y","o","r","k">>, -300>>, <<<<"A","m","e","r","i","c","a","/","C","h","i","c","a","g","o">>, -360>>,
     <<<<"A","m","e","r","i","c","a","/","D","e","n","v","e","r">>, -420>>, <<<<"A","m","e","r","i","c","a","/","L","o","s","_","A","n","g","e","l","e","s">>, -480>>,
     <<<<"E","u","r","o","p","e","/","L","o","n","d","o","n">>, 0>>, <<<<"E","u","r","o","p","e","/","P","a","r","i","s">>, 60>>, <<<<"E","u","r","o","p","e","/","A","t","h","e","n","s">>, 120>>,
     <<<<"A","u","s","t","r","a","l","i","a","/","S","y","d","n","e","y">>, 600>>, <<<<"A","s","i","a","/","K","o","l","k","a","t","a">>, 330>>, <<<<"U","T","C">>, 0>> >>

\* the names only dateutil's gettz makes a zone of (a fixed offset)
GETTZ_ZONES == << <<<<"U","T","C","+","3">>, 180>> >>

\* tzlocal.get_localzone(): the zone of the machine
LOCAL_ZONE == <<"A","s","i","a","/","K","o","l","k","a","t","a">>

\* pytz.utc
PYTZ_UTC == [zone |-> <<"U","T","C">>, lib |-> "pytz", utc |-> 0]

\* table lookup by name: the index of the entry, 0 when there is none
Lookup(table, name) ==
  IF \E i \in 1..Len(table) : table[i][1] = name
    THEN CHOOSE i \in 1..Len(table) : table[i][1] = name
    ELSE 0

\* A plausible slip: a name no resolver knows is an error, not UTC.
resolve_timezone_NoFallback(tz_str, event_title) ==
  LET tz_str_raw == IF Truthy(tz_str) THEN tz_str.text ELSE <<"l","o","c","a","l">>
      tz_upper   == Upper(tz_str_raw)
      abbr       == Lookup(ABBR_TO_TZ, tz_upper)
      tz_name    == IF tz_upper = <<"L","O","C","A","L">> THEN LOCAL_ZONE
                    ELSE IF abbr # 0 THEN ABBR_TO_TZ[abbr][2] ELSE tz_str_raw
      known      == Lookup(PYTZ_ZONES, tz_name)
      du         == Lookup(GETTZ_ZONES, tz_name)
  IN  IF known # 0
        THEN [kind |-> "return",
              tz |-> [zone |-> tz_name, lib |-> "pytz", utc |-> PYTZ_ZONES[known][2]],
              warning |-> PyNone]
      ELSE IF du # 0
        THEN [kind |-> "return",
              tz |-> [zone |-> tz_name, lib |-> "dateutil", utc |-> GETTZ_ZONES[du][2]],
              warning |-> PyNone]
      ELSE [kind |-> "raise", error |-> Exc(<<"U","n","k","n","o","w","n","T","i","m","e","Z","o","n","e","E","r","r","o","r">>, tz_name)]

\* resolve_timezone(tz_str, event_title): [kind, tz, warning]
resolve_timezone(tz_str, event_title) ==
  LET tz_str_raw == IF Truthy(tz_str) THEN tz_str.text ELSE <<"l","o","c","a","l">>
      tz_upper   == Upper(tz_str_raw)
      abbr       == Lookup(ABBR_TO_TZ, tz_upper)
      tz_name    == IF tz_upper = <<"L","O","C","A","L">> THEN LOCAL_ZONE
                    ELSE IF abbr # 0 THEN ABBR_TO_TZ[abbr][2] ELSE tz_str_raw
      \* pytz.timezone(tz_name): a zone, or UnknownTimeZoneError (0)
      known      == Lookup(PYTZ_ZONES, tz_name)
      \* du_tz.gettz(tz_name): a zone, or None (0)
      du         == Lookup(GETTZ_ZONES, tz_name)
      event_desc == IF Truthy(event_title)
                      THEN <<"'">> \o event_title.text \o <<"'">> ELSE <<"e","v","e","n","t">>
  IN  IF known # 0
        THEN [kind |-> "return",
              tz |-> [zone |-> tz_name, lib |-> "pytz", utc |-> PYTZ_ZONES[known][2]],
              warning |-> PyNone]
      ELSE IF du # 0
        THEN [kind |-> "return",
              tz |-> [zone |-> tz_name, lib |-> "dateutil", utc |-> GETTZ_ZONES[du][2]],
              warning |-> PyNone]
      ELSE [kind |-> "return", tz |-> PYTZ_UTC,
            warning |-> Str(<<"C","o","u","l","d","n","'","t"," ","r","e","s","o","l","v","e"," ","t","i","m","e","z","o","n","e"," ","'">> \o tz_str_raw \o <<"'"," ","f","o","r"," ">>
                            \o event_desc
                            \o <<" ","-"," ","u","s","i","n","g"," ","U","T","C","."," ","P","l","e","a","s","e"," ","v","e","r","i","f","y"," ","t","h","e"," ","t","i","m","e"," ","i","n"," ","y","o","u","r"," ","c","a","l","e","n","d","a","r",".">>)]

\* the hints: absent, empty, 'local' in three cases, abbreviations in upper,
\* lower and mixed case, zone names, names only gettz knows, unknown names
InitTimezone ==
  /\ tz_call \in { [kind |-> "call", tz_str |-> h, event_title |-> t] :
                     h \in { PyNone, Str(<<>>), Str(<<"l","o","c","a","l">>), Str(<<"L","O","C","A","L">>), Str(<<"L","o","c","a","l">>),
                             Str(<<"E","S","T">>), Str(<<"c","e","s","t">>), Str(<<"P","s","t">>), Str(<<"I","S","T">>),
                             Str(<<"E","u","r","o","p","e","/","L","o","n","d","o","n">>), Str(<<"A","m","e","r","i","c","a","/","N","e","w","_","Y","o","r","k">>), Str(<<"U","T","C">>),
                             Str(<<"U","T","C","+","3">>), Str(<<"M","a","r","s","/","P","h","o","b","o","s">>), Str(<<"X","Y","Z">>), Str(<<"E","a","s","t","e","r","n">>),
                             Str(<<"e","u","r","o","p","e","-","l","o","n","d","o","n">>) },
                     t \in { PyNone, Str(<<>>), Str(<<"L","u","n","c","h">>), Str(<<"T","e","a","m"," ","s","y","n","c">>) } }
  /\ tz_result = NotCalled
  /\ ev_data = NotCalled /\ ev_result = NotCalled
  /\ ClsIdle /\ RetryIdle /\ MergeIdle /\ BuildIdle /\ UiIdle

\* resolve_timezone(tz_str, event_title) is called
ResolveTimezone ==
  /\ tz_result = NotCalled
  /\ tz_result' = resolve_timezone(tz_call.tz_str, tz_call.event_title)
  /\ UNCHANGED <<tz_call, ev_data, ev_result>>
  /\ UNCHANGED <<clsVars, retryVars, mergeVars, buildVars, uiVars>>

NextTimezone == ResolveTimezone

SpecTimezone == InitTimezone /\ [][NextTimezone]_vars

---------------------------------------------------------------------------
(* core/event_model.py: CalendarEvent.  A dict of event data and a         *)
(* CalendarEvent are functions from the eight field names to Python        *)
(* values; a key the dict does not have is NoKey.                          *)

REQUIRED_FIELDS == {"uid", "title", "start_time", "end_time", "date", "timezone"}
OPTIONAL_FIELDS == {"description", "location"}
EVENT_FIELDS == REQUIRED_FIELDS \cup OPTIONAL_FIELDS

\* data.get(key) and data.get(key, default)
Get(data, key) == IF data[key] = NoKey THEN PyNone ELSE data[key]
GetOr(data, key, default) == IF data[key] = NoKey THEN Str(default) ELSE data[key]

\* EventValidationError(missing_fields, event_title)
EventValidationError(missing_fields, event_title) ==
  [type |-> <<"E","v","e","n","t","V","a","l","i","d","a","t","i","o","n","E","r","r","o","r">>, missing_fields |-> missing_fields,
   event_title |-> event_title]

\* A plausible slip: an optional field that is given is not read.
from_dict_DropOptional(data, uuid) ==
  LET missing == {k \in REQUIRED_FIELDS : data[k] = NoKey}
  IN  IF missing # {}
        THEN [raised |-> TRUE,
              error |-> EventValidationError(missing, GetOr(data, "title", <<"U","n","k","n","o","w","n">>)),
              uuid |-> uuid]
      ELSE [raised |-> FALSE,
            event |-> [k \in EVENT_FIELDS |->
                         IF k = "uid" /\ ~Truthy(Get(data, "uid")) THEN Str(uuid4(uuid))
                         ELSE IF k \in OPTIONAL_FIELDS THEN PyNone
                         ELSE Get(data, k)],
            uuid |-> IF Truthy(Get(data, "uid")) THEN uuid ELSE uuid + 1]

\* A plausible slip: the uid is taken as it is given, empty or not.
from_dict_KeepUid(data, uuid) ==
  LET missing == {k \in REQUIRED_FIELDS : data[k] = NoKey}
  IN  IF missing # {}
        THEN [raised |-> TRUE,
              error |-> EventValidationError(missing, GetOr(data, "title", <<"U","n","k","n","o","w","n">>)),
              uuid |-> uuid]
      ELSE [raised |-> FALSE,
            event |-> [k \in EVENT_FIELDS |-> Get(data, k)],
            uuid |-> uuid]

\* CalendarEvent.from_dict(data), with `uuid` UUIDs drawn before:
\* [raised, event | error, uuid]
from_dict(data, uuid) ==
  LET missing == {k \in REQUIRED_FIELDS : data[k] = NoKey}
  IN  IF missing # {}
        THEN [raised |-> TRUE,
              error |-> EventValidationError(missing, GetOr(data, "title", <<"U","n","k","n","o","w","n">>)),
              uuid |-> uuid]
      ELSE [raised |-> FALSE,
            event |-> [k \in EVENT_FIELDS |->
                         IF k = "uid" /\ ~Truthy(Get(data, "uid")) THEN Str(uuid4(uuid))
                         ELSE Get(data, k)],
            uuid |-> IF Truthy(Get(data, "uid")) THEN uuid ELSE uuid + 1]

\* CalendarEvent.to_dict(self)
to_dict(self) ==
  [k \in EVENT_FIELDS |->
     IF k \in OPTIONAL_FIELDS /\ ~Truthy(self[k]) THEN NoKey ELSE self[k]]

\* the data at hand: a required key may be absent, None or empty
EventDicts ==
  { [uid |-> u, title |-> t, start_time |-> s, end_time |-> Str(<<"1","1",":","0","0"," ","A","M">>),
     date |-> d, timezone |-> z, description |-> n, location |-> l] :
      u \in {NoKey, PyNone, Str(<<>>), Str(<<"t","e","s","t","-","1","2","3">>)},
      t \in {NoKey, PyNone, Str(<<"L","u","n","c","h">>)},
      s \in {NoKey, Str(<<"1","0",":","0","0"," ","A","M">>)},
      d \in {NoKey, Str(<<"2","0","2","5","-","0","1","-","1","5">>)},
      z \in {NoKey, PyNone, Str(<<"E","S","T">>)},
      n \in {NoKey, PyNone, Str(<<>>), Str(<<"A"," ","t","e","s","t">>)},
      l \in {NoKey, PyNone, Str(<<>>), Str(<<"R","o","o","m"," ","1">>)} }

InitEvent ==
  /\ ev_data \in { [kind |-> "dict", data |-> d] : d \in EventDicts }
                   \cup \* CalendarEvent(...): every field has a value
                        { [kind |-> "event", data |-> e] :
                            e \in { d \in EventDicts : \A k \in EVENT_FIELDS : d[k] # NoKey } }
  /\ ev_result = NotCalled
  /\ tz_call = NotCalled /\ tz_result = NotCalled
  /\ ClsIdle /\ RetryIdle /\ MergeIdle /\ BuildIdle /\ UiIdle

\* CalendarEvent.from_dict(data) is called
FromDict ==
  /\ ev_data.kind = "dict"
  /\ ev_result = NotCalled
  /\ \E r \in {from_dict(ev_data.data, 0)} :
       ev_result' = IF r.raised
                      THEN [kind |-> "raise", error |-> r.error]
                      ELSE [kind |-> "event", event |-> r.event, uuid |-> r.uuid]
  /\ UNCHANGED <<tz_call, tz_result, ev_data>>
  /\ UNCHANGED <<clsVars, retryVars, mergeVars, buildVars, uiVars>>

\* CalendarEvent(uid=..., ...) is called: the dataclass takes the values as
\* they are
Construct ==
  /\ ev_data.kind = "event"
  /\ ev_result = NotCalled
  /\ ev_result' = [kind |-> "event", event |-> ev_data.data, uuid |-> 0]
  /\ UNCHANGED <<tz_call, tz_result, ev_data>>
  /\ UNCHANGED <<clsVars, retryVars, mergeVars, buildVars, uiVars>>

\* CalendarEvent.from_dict(e.to_dict()) is called on the event at hand
RoundTrip ==
  /\ ev_result.kind = "event"
  /\ \E r \in {from_dict(to_dict(ev_result.event), ev_result.uuid)} :
       ev_result' = [kind |-> "roundtrip", event |-> ev_result.event,
                     data |-> to_dict(ev_result.event),
                     back |-> IF r.raised THEN [raised |-> TRUE, error |-> r.error]
                                          ELSE [raised |-> FALSE, event |-> r.event]]
  /\ UNCHANGED <<tz_call, tz_result, ev_data>>
  /\ UNCHANGED <<clsVars, retryVars, mergeVars, buildVars, uiVars>>

NextEvent == FromDict \/ Construct \/ RoundTrip

SpecEvent == InitEvent /\ [][NextEvent]_vars

---------------------------------------------------------------------------
(* core/timezone_utils.py: normalize_time_string.  The three regular       *)
(* expressions are matched on the characters.                              *)

\* normalize_time_string(time_str)
normalize_time_string(time_str) ==
  LET IsDigit(c) == \E i \in 1..Len(DigitChars) : DigitChars[i] = c
      \* int(text) of one or two digits
      DigitsValue(t) ==
        LET DigitValue(c) == (CHOOSE i \in 1..Len(DigitChars) : DigitChars[i] = c) - 1
        IN  IF Len(t) = 1 THEN DigitValue(t[1])
                          ELSE 10 * DigitValue(t[1]) + DigitValue(t[2])
      \* f"{hour:02d}:{minute}"
      HourMinute(hour, minute) ==
        (IF hour < 10 THEN <<"0">> ELSE <<>>) \o IntToStr(hour) \o <<":">> \o minute
      \* the number of whitespace characters of s from position i on
      SpaceRun(s, i) ==
        CHOOSE n \in 0..(Len(s) + 1 - i) :
          /\ \A j \in i..(i + n - 1) : s[j] \in Whitespace
          /\ i + n <= Len(s) => s[i + n] \notin Whitespace
      \* r"^\d{1,2}\.\d{2}$": `$` allows a newline at the end
      MatchesDotted(s) ==
        \E n \in 1..2 :
          /\ Len(s) \in {n + 3, n + 4}
          /\ \A i \in 1..n : IsDigit(s[i])
          /\ s[n + 1] = "."
          /\ IsDigit(s[n + 2]) /\ IsDigit(s[n + 3])
          /\ Len(s) = n + 4 => s[n + 4] = "\n"
      \* r"^\s*(\d{1,2})(?:[:\.]?(\d{2}))?\s*h(?:rs?)?\.?\s*$", re.IGNORECASE:
      \* the (hour digits, minute digits or <<>>) the text matches with
      HourSuffixMatches(s) ==
        LET a == SpaceRun(s, 1)
            \* the text from position i on is  \s*h(?:rs?)?\.?\s*$
            Suffix(i) ==
              \E sp \in 0..SpaceRun(s, i) : \E r \in 0..2 : \E dot \in 0..1 :
                LET h == i + sp
                    e == h + 1 + r + dot
                IN  /\ h <= Len(s) /\ s[h] \in {"h", "H"}
                    /\ r >= 1 => (h + 1 <= Len(s) /\ s[h + 1] \in {"r", "R"})
                    /\ r = 2 => (h + 2 <= Len(s) /\ s[h + 2] \in {"s", "S"})
                    /\ dot = 1 => (h + 1 + r <= Len(s) /\ s[h + 1 + r] = ".")
                    /\ \A j \in e..Len(s) : s[j] \in Whitespace
        IN  { <<SubSeq(s, a + 1, a + t[1]),
                IF t[3] = 0 THEN <<>>
                ELSE SubSeq(s, a + t[1] + t[2] + 1, a + t[1] + t[2] + 2)>> :
                t \in { t \in (1..2) \X (0..1) \X (0..1) :
                          /\ a + t[1] <= Len(s)
                          /\ \A i \in (a + 1)..(a + t[1]) : IsDigit(s[i])
                          /\ t[3] = 0 => t[2] = 0
                          /\ t[3] = 1 =>
                               /\ a + t[1] + t[2] + 2 <= Len(s)
                               /\ t[2] = 1 => s[a + t[1] + 1] \in {":", "."}
                               /\ IsDigit(s[a + t[1] + t[2] + 1])
                               /\ IsDigit(s[a + t[1] + t[2] + 2])
                          /\ Suffix(a + t[1] + t[2] + 2 * t[3] + 1) } }
      \* r"^\s*(\d{1,2})h(\d{2})\s*$", re.IGNORECASE
      HourHMinuteMatches(s) ==
        LET a == SpaceRun(s, 1)
        IN  { <<SubSeq(s, a + 1, a + n), SubSeq(s, a + n + 2, a + n + 3)>> :
                n \in { k \in 1..2 :
                          /\ a + k + 3 <= Len(s)
                          /\ \A i \in (a + 1)..(a + k) : IsDigit(s[i])
                          /\ s[a + k + 1] \in {"h", "H"}
                          /\ IsDigit(s[a + k + 2]) /\ IsDigit(s[a + k + 3])
                          /\ \A j \in (a + k + 4)..Len(s) : s[j] \in Whitespace } }
      Dotted(s) ==
        IF MatchesDotted(s)
          THEN [i \in 1..Len(s) |-> IF s[i] = "." THEN ":" ELSE s[i]]
          ELSE s
      Normalized(s) ==
        IF HourSuffixMatches(s) # {}
          THEN \* the regex is greedy: two hour digits before one
               LET g == CHOOSE x \in HourSuffixMatches(s) :
                          \A y \in HourSuffixMatches(s) : Len(y[1]) <= Len(x[1])
               IN  HourMinute(DigitsValue(g[1]), IF g[2] = <<>> THEN <<"0","0">> ELSE g[2])
        ELSE IF HourHMinuteMatches(s) # {}
          THEN LET g == CHOOSE x \in HourHMinuteMatches(s) : TRUE
               IN  HourMinute(DigitsValue(g[1]), g[2])
        ELSE s
  IN  IF time_str.py # "str" THEN PyStr(time_str)
      ELSE Normalized(Dotted(Strip(time_str.text)))

---------------------------------------------------------------------------
(* core/ics_builder.py: build_ics_from_events.  An element of the events   *)
(* list is a dict of event data or, as json.loads may give, something that *)
(* is no dict.  A date is a day of January 2025 and a time a minute of the *)
(* day; dateutil's parser is the environment: the texts it reads are       *)
(* listed here.  A built document is the calendar combine_ics_strings      *)
(* parses of it.                                                           *)

\* largest number of elements of the events list
MaxEvents == 2

Dict(d)   == [py |-> "dict", data |-> d]
NotADict  == [py |-> "int"]

\* A plausible slip: the local time is written, not the UTC one.
astimezone_utc_KeepLocal(day, minute, tz) ==
  [day |-> day, minute |-> minute, utc |-> FALSE]

\* attach_timezone(tz, naive) and .astimezone(pytz.utc): [day, minute, utc]
astimezone_utc(day, minute, tz) ==
  LET total == day * 1440 + minute - tz.utc
  IN  [day |-> total \div 1440, minute |-> total % 1440, utc |-> TRUE]

\* A plausible slip: the date is left out of the required fields.
validate_event_fields_NoDate(d, index) ==
  LET missing_keys == {k \in REQUIRED_FIELDS \ {"date"} : d[k] = NoKey}
      event_title == IF d["title"] = NoKey THEN <<"E","v","e","n","t"," ">> \o IntToStr(index + 1)
                     ELSE PyStr(d["title"])
  IN  IF missing_keys # {}
        THEN [py |-> "str",
              text |-> <<"S","k","i","p","p","i","n","g"," ","'">> \o event_title \o <<"'"," ","-"," ","m","i","s","s","i","n","g"," ","r","e","q","u","i","r","e","d"," ","f","i","e","l","d","s",":"," ">>,
              missing_keys |-> missing_keys]
        ELSE PyNone

\* _validate_event_fields(event_dict, index): None or the warning; the
\* missing keys are kept as a set (the text of a Python set has no fixed order)
validate_event_fields(d, index) ==
  LET missing_keys == {k \in REQUIRED_FIELDS : d[k] = NoKey}
      event_title == IF d["title"] = NoKey THEN <<"E","v","e","n","t"," ">> \o IntToStr(index + 1)
                     ELSE PyStr(d["title"])
  IN  IF missing_keys # {}
        THEN [py |-> "str",
              text |-> <<"S","k","i","p","p","i","n","g"," ","'">> \o event_title \o <<"'"," ","-"," ","m","i","s","s","i","n","g"," ","r","e","q","u","i","r","e","d"," ","f","i","e","l","d","s",":"," ">>,
              missing_keys |-> missing_keys]
        ELSE PyNone

\* _parse_event_datetime(event_dict): [raised, error, start_utc, end_utc, warning]
parse_event_datetime(d) ==
  LET \* parser.parse(text).date(): the texts dateutil reads, with the day
      DATES == << <<<<"2","0","2","5","-","0","1","-","1","5">>, 15>>, <<<<"J","a","n"," ","2","0",","," ","2","0","2","5">>, 20>> >>
      \* parser.parse(text).time(): the texts, with the minute of the day
      TIMES == << <<<<"0",":","3","0">>, 30>>, <<<<"1","0",":","0","0"," ","A","M">>, 600>>, <<<<"1","1",":","0","0"," ","A","M">>, 660>>,
                  <<<<"2","0",":","1","5">>, 1215>>, <<<<"2","1",":","0","0">>, 1260>>, <<<<"2","3",":","3","0">>, 1410>> >>
      \* parser.parse(value): [raised, error, value]
      parse(table, value) ==
        IF value.py # "str"
          THEN [raised |-> TRUE, value |-> 0,
                error |-> Exc(<<"T","y","p","e","E","r","r","o","r">>,
                              <<"P","a","r","s","e","r"," ","m","u","s","t"," ","b","e"," ","a"," ","s","t","r","i","n","g"," ","o","r"," ","c","h","a","r","a","c","t","e","r"," ","s","t","r","e","a","m",","," ","n","o","t"," ","N","o","n","e","T","y","p","e">>)]
        ELSE IF Lookup(table, value.text) = 0
          THEN [raised |-> TRUE, value |-> 0,
                error |-> Exc(<<"P","a","r","s","e","r","E","r","r","o","r">>, <<"U","n","k","n","o","w","n"," ","s","t","r","i","n","g"," ","f","o","r","m","a","t",":"," ">> \o value.text)]
        ELSE [raised |-> FALSE, value |-> table[Lookup(table, value.text)][2],
              error |-> NoError]
      Failed(e)  == [raised |-> TRUE, error |-> e]
      DateTimeResult(event_date, start_time, end_time, tz) ==
        IF event_date.raised THEN Failed(event_date.error)
        ELSE IF start_time.raised THEN Failed(start_time.error)
        ELSE IF end_time.raised THEN Failed(end_time.error)
        ELSE [raised |-> FALSE, error |-> NoError,
              start_utc |-> astimezone_utc(event_date.value, start_time.value, tz.tz),
              end_utc |-> astimezone_utc(event_date.value, end_time.value, tz.tz),
              warning |-> tz.warning]
  IN  DateTimeResult(
        parse(DATES, d["date"]),
        parse(TIMES, Str(normalize_time_string(d["start_time"]))),
        parse(TIMES, Str(normalize_time_string(d["end_time"]))),
        resolve_timezone(IF Truthy(Get(d, "timezone")) THEN Get(d, "timezone")
                                                      ELSE Str(<<"l","o","c","a","l">>),
                         Get(d, "title")))

\* _create_ics_calendar, _create_ics_event and add_component: the document
create_ics_event(d, dt_result, uuid) ==
  LET uid == IF Truthy(Get(d, "uid")) THEN d["uid"].text ELSE uuid4(uuid)
      \* DEFAULT_EVENT_TITLE is "No Title"
      title == IF d["title"] = NoKey THEN <<"N","o"," ","T","i","t","l","e">> ELSE PyStr(d["title"])
      \* datetime.now(pytz.utc) as DTSTAMP is written
      NOW == <<"2","0","2","5","0","1","0","1","T","0","0","0","0","0","0","Z">>
      TwoDigits(n) == (IF n < 10 THEN <<"0">> ELSE <<>>) \o IntToStr(n)
      \* icalendar's text of a datetime: a UTC one ends in Z
      vDatetime(dt) ==
        <<"2","0","2","5","0","1">> \o TwoDigits(dt.day) \o <<"T">> \o TwoDigits(dt.minute \div 60)
          \o TwoDigits(dt.minute % 60) \o <<"0","0">> \o (IF dt.utc THEN <<"Z">> ELSE <<>>)
  IN  [kind |-> "calendar",
       props |-> << <<"PRODID", ICS_PRODID>>, <<"VERSION", <<"2",".","0">>>> >>,
       comps |-> << Component("VEVENT", Absent, Value(uid),
                      << <<"DTSTAMP", NOW>>,
                         <<"DTSTART", vDatetime(dt_result.start_utc)>>,
                         <<"DTEND", vDatetime(dt_result.end_utc)>>,
                         <<"SUMMARY", title>> >>
                      \o (IF Truthy(Get(d, "location"))
                            THEN << <<"LOCATION", d["location"].text>> >> ELSE <<>>)
                      \o (IF Truthy(Get(d, "description"))
                            THEN << <<"DESCRIPTION", d["description"].text>> >> ELSE <<>>)
                      \o << <<"BEGIN", <<"V","A","L","A","R","M">>>>, <<"ACTION", <<"D","I","S","P","L","A","Y">>>>,
                            <<"DESCRIPTION", <<"R","e","m","i","n","d","e","r">>>>, <<"TRIGGER", <<"-","P","T","3","0","M">>>>,
                            <<"END", <<"V","A","L","A","R","M">>>> >>) >>]

\* _build_single_event_ics(event_dict, index), with `uuid` UUIDs drawn before:
\* [raised, error, success, ics_content, warning, uuid]; raised is an
\* exception that leaves the function
build_single_event_ics(event_dict, index, uuid) ==
  IF event_dict.py # "dict"
    THEN \* set(event_dict.keys()) raises, and so does event_dict.get in the handler
         [raised |-> TRUE,
          error |-> Exc(<<"A","t","t","r","i","b","u","t","e","E","r","r","o","r">>, <<"'","i","n","t","'"," ","o","b","j","e","c","t"," ","h","a","s"," ","n","o"," ","a","t","t","r","i","b","u","t","e"," ","'","g","e","t","'">>),
          success |-> FALSE, ics_content |-> PyNone, warning |-> PyNone, uuid |-> uuid]
  ELSE LET Result(success, content, warning, n) ==
             [raised |-> FALSE, error |-> NoError, success |-> success,
              ics_content |-> content, warning |-> warning, uuid |-> n]
           Built(d, validation_warning, dt_result) ==
             IF validation_warning # PyNone
               THEN Result(FALSE, PyNone, validation_warning, uuid)
             ELSE IF dt_result.raised
               THEN Result(FALSE, PyNone,
                           Str(<<"E","r","r","o","r"," ","b","u","i","l","d","i","n","g"," ","I","C","S"," ","f","o","r"," ","e","v","e","n","t"," ">> \o IntToStr(index + 1) \o <<" ","(">>
                                 \o PyStr(Get(d, "title")) \o <<")",":"," ">> \o dt_result.error.msg),
                           uuid)
             ELSE Result(TRUE, create_ics_event(d, dt_result, uuid), dt_result.warning,
                         IF Truthy(Get(d, "uid")) THEN uuid ELSE uuid + 1)
       IN  Built(event_dict.data, validate_event_fields(event_dict.data, index),
                 parse_event_datetime(event_dict.data))

\* _normalize_events_input(events)
normalize_events_input(events_arg) ==
  IF events_arg.py = "dict" THEN <<events_arg>>
  ELSE IF events_arg.py # "list" THEN <<>>
  ELSE events_arg.items

\* the loop of build_ics_from_events from element i on;
\* b = [kind, ics_strings, warnings, results, uuid]
RECURSIVE build_from(_, _, _)
build_from(evs, i, b) ==
  IF i > Len(evs) THEN b
  ELSE LET Step(r) ==
             IF r.raised
               THEN [kind |-> "raise", error |-> r.error, ics_strings |-> <<>>,
                     warnings |-> <<>>, results |-> b.results, uuid |-> b.uuid]
             ELSE build_from(evs, i + 1,
                    [b EXCEPT !.ics_strings = IF r.success THEN Append(@, r.ics_content) ELSE @,
                              !.warnings = IF Truthy(r.warning) THEN Append(@, r.warning) ELSE @,
                              !.results = Append(@, [success |-> r.success,
                                                     warning |-> r.warning]),
                              !.uuid = r.uuid])
       IN  Step(build_single_event_ics(evs[i], i - 1, b.uuid))

\* build_ics_from_events(events), with `uuid` UUIDs drawn before
build_ics_from_events(events_arg, uuid) ==
  build_from(normalize_events_input(events_arg), 1,
             [kind |-> "return", ics_strings |-> <<>>, warnings |-> <<>>,
              results |-> <<>>, uuid |-> uuid])

RECURSIVE JoinDocuments(_, _)
\* "\r\n".join(ics_strings): the lines of all the documents, in order.  The
\* text of a calendar has one line NAME:value for every item of
\* property_items(); their order is left as it is.
JoinDocuments(strings, i) ==
  IF i > Len(strings) THEN <<>>
  ELSE property_items(strings[i]) \o JoinDocuments(strings, i + 1)

\* CalendarAPIClient.create_calendar_event after get_event_data returned
\* events_arg: [built, final]
create_calendar_event(events_arg, uuid) ==
  LET \* bool(events) is false: an empty list, dict or str
      IsEmpty(v) ==
        CASE v.py = "list" -> v.items = <<>>
          [] v.py = "dict" -> \A k \in EVENT_FIELDS : v.data[k] = NoKey
          [] v.py = "str"  -> v.text = <<>>
          [] OTHER         -> FALSE
      FinalRaised(type, msg) == [kind |-> "raise", error |-> Exc(type, msg)]
  IN
  IF IsEmpty(events_arg)
    THEN [built |-> NotCalled,
          final |-> FinalRaised(<<"E","x","c","e","p","t","i","o","n">>, <<"A","P","I"," ","r","e","t","u","r","n","e","d"," ","n","o"," ","e","v","e","n","t"," ","d","a","t","a",".">>)]
  ELSE LET b == build_ics_from_events(events_arg, uuid)
           Outcome(x) ==
             [built |-> x,
              final |->
                IF x.kind = "raise" THEN [kind |-> "raise", error |-> x.error]
                ELSE IF x.ics_strings = <<>>
                  THEN FinalRaised(<<"E","x","c","e","p","t","i","o","n">>, <<"F","a","i","l","e","d"," ","t","o"," ","b","u","i","l","d"," ","I","C","S"," ","c","o","n","t","e","n","t"," ","f","r","o","m"," ","e","v","e","n","t"," ","d","a","t","a",".">>)
                ELSE [kind |-> "text", lines |-> JoinDocuments(x.ics_strings, 1),
                      shown |-> x.warnings]]
       IN  Outcome(b)

\* NLCalendarCreator._build_merged_ics(events): [built, final]
build_merged_ics(events_arg, uuid) ==
  LET b == build_ics_from_events(events_arg, uuid)
      Outcome(x) ==
        [built |-> x,
         final |->
           IF x.kind = "raise" THEN [kind |-> "raise", error |-> x.error]
           ELSE IF x.ics_strings = <<>>
             THEN [kind |-> "raise",
                   error |-> Exc(<<"V","a","l","u","e","E","r","r","o","r">>, <<"F","a","i","l","e","d"," ","t","o"," ","c","r","e","a","t","e"," ","I","C","S"," ","f","i","l","e","s"," ","f","r","o","m"," ","e","v","e","n","t"," ","d","a","t","a">>)]
           ELSE LET Text(c) ==
                      IF c.outcome.kind = "raise" THEN c.outcome
                      ELSE [kind |-> "text", lines |-> property_items(c.outcome),
                            shown |-> x.warnings]
                IN  Text(combine_ics_strings(x.ics_strings, x.uuid))]
  IN  Outcome(b)

\* the elements extraction may hand over
RawElements ==
  LET ok == [uid |-> Str(<<"e","v","t","-","1">>), title |-> Str(<<"L","u","n","c","h">>),
             start_time |-> Str(<<"1","0",":","0","0"," ","A","M">>), end_time |-> Str(<<"1","1",":","0","0"," ","A","M">>),
             date |-> Str(<<"2","0","2","5","-","0","1","-","1","5">>), timezone |-> Str(<<"E","S","T">>),
             description |-> Str(<<"A"," ","t","e","s","t">>), location |-> NoKey]
  IN  { Dict(ok),
        \* European times, a late hour in a zone east of UTC, an unknown zone
        Dict([ok EXCEPT !["uid"] = Str(<<"e","v","t","-","2">>), !["title"] = Str(<<"T","e","a","m"," ","s","y","n","c">>),
                        !["start_time"] = Str(<<"2","0","h","1","5">>), !["end_time"] = Str(<<"2","1",".","0","0">>),
                        !["timezone"] = Str(<<"M","a","r","s","/","P","h","o","b","o","s">>), !["description"] = NoKey,
                        !["location"] = Str(<<"R","o","o","m"," ","1">>)]),
        Dict([ok EXCEPT !["date"] = Str(<<"J","a","n"," ","2","0",","," ","2","0","2","5">>), !["start_time"] = Str(<<"0",":","3","0">>),
                        !["end_time"] = Str(<<"2","3",":","3","0">>), !["timezone"] = Str(<<"A","s","i","a","/","K","o","l","k","a","t","a">>)]),
        \* a required value that is empty or null
        Dict([ok EXCEPT !["uid"] = Str(<<>>)]),
        Dict([ok EXCEPT !["uid"] = PyNone]),
        Dict([ok EXCEPT !["title"] = PyNone]),
        Dict([ok EXCEPT !["timezone"] = PyNone]),
        Dict([ok EXCEPT !["date"] = PyNone]),
        Dict([ok EXCEPT !["start_time"] = PyNone]),
        \* a required key that is absent, a date dateutil cannot read
        Dict([ok EXCEPT !["date"] = NoKey]),
        Dict([ok EXCEPT !["title"] = NoKey, !["uid"] = NoKey]),
        Dict([ok EXCEPT !["date"] = Str(<<"s","o","m","e","d","a","y">>)]),
        \* a JSON number where an object should be
        NotADict }

EmptyList == [py |-> "list", items |-> <<>>]

InitBuild ==
  /\ raw_events = EmptyList
  /\ built = NotCalled
  /\ final = NotCalled
  /\ ClsIdle /\ RetryIdle /\ MergeIdle /\ PureIdle /\ UiIdle

\* the extracted list holds one more element
ExtractElement ==
  /\ raw_events.py = "list"
  /\ built = NotCalled /\ final = NotCalled
  /\ Len(raw_events.items) < MaxEvents
  /\ \E e \in RawElements : raw_events' = [raw_events EXCEPT !.items = Append(@, e)]
  /\ UNCHANGED <<built, final>>
  /\ UNCHANGED <<clsVars, retryVars, mergeVars, pureVars, uiVars>>

\* the response was a single JSON object or a JSON string, not a list
ExtractOther ==
  /\ raw_events = EmptyList
  /\ built = NotCalled /\ final = NotCalled
  /\ \E e \in (RawElements \ {NotADict}) \cup {Str(<<"n","o"," ","e","v","e","n","t","s">>)} : raw_events' = e
  /\ UNCHANGED <<built, final>>
  /\ UNCHANGED <<clsVars, retryVars, mergeVars, pureVars, uiVars>>

\* build_ics_from_events(events) is called
BuildIcs ==
  /\ raw_events # NoEvents
  /\ built = NotCalled /\ final = NotCalled
  /\ built' = build_ics_from_events(raw_events, 0)
  /\ UNCHANGED <<raw_events, final>>
  /\ UNCHANGED <<clsVars, retryVars, mergeVars, pureVars, uiVars>>

\* _build_merged_ics(events) is called (the UI)
BuildMergedIcs ==
  /\ raw_events # NoEvents
  /\ built = NotCalled /\ final = NotCalled
  /\ \E r \in {build_merged_ics(raw_events, 0)} :
       /\ built' = r.built
       /\ final' = r.final @@ [path |-> "ui"]
  /\ UNCHANGED raw_events
  /\ UNCHANGED <<clsVars, retryVars, mergeVars, pureVars, uiVars>>

\* create_calendar_event(...) is called and get_event_data has returned
CreateCalendarEvent ==
  /\ raw_events # NoEvents
  /\ built = NotCalled /\ final = NotCalled
  /\ \E r \in {create_calendar_event(raw_events, 0)} :
       /\ built' = r.built
       /\ final' = r.final @@ [path |-> "api"]
  /\ UNCHANGED raw_events
  /\ UNCHANGED <<clsVars, retryVars, mergeVars, pureVars, uiVars>>

NextBuild ==
  ExtractElement \/ ExtractOther \/ BuildIcs \/ BuildMergedIcs \/ CreateCalendarEvent

SpecBuild == InitBuild /\ [][NextBuild]_vars

\* Event data is validated by CalendarEvent.from_dict or by
\* build_ics_from_events: either is called.
SpecValidate == (InitBuild \/ InitEvent) /\ [][NextBuild \/ NextEvent]_vars
---------------------------------------------------------------------------
(* Properties of combine_ics_strings: calendar properties and failures.    *)

IsCalendar(e) == e.kind = "calendar"
IsUnparseable(e) == e.kind = "unparseable"

\* the entries of the input that parse, in list order
SourceCalendars == SelectSeq(ics_strings, IsCalendar)

\* the VCALENDAR of the source holds a property of that name itself
Defines(calendar, name) == \E k \in 1..Len(calendar.props) : calendar.props[k][1] = name

\* the merged calendar holds the property with that value
MergedCarries(name, value) ==
  /\ \E k \in 1..Len(merged.props) : merged.props[k][1] = name
  /\ \A k \in 1..Len(merged.props) : merged.props[k][1] = name => merged.props[k][2] = value

\* C11: for every name a source VCALENDAR holds as a property of its own,
\* the merged calendar carries the value of the first source (in list
\* order) that holds it; PRODID, VERSION and CALSCALE that no source holds
\* are '-//NL Calendar Creator//EN', '2.0' and 'GREGORIAN'.
C11_FirstSourceWins ==
  merged.kind = "document" =>
    /\ \A i \in 1..Len(SourceCalendars) : \A k \in 1..Len(SourceCalendars[i].props) :
         (\A j \in 1..(i - 1) : ~Defines(SourceCalendars[j], SourceCalendars[i].props[k][1]))
           => MergedCarries(SourceCalendars[i].props[k][1], SourceCalendars[i].props[k][2])
    /\ \A d \in { <<"PRODID", ICS_PRODID>>, <<"VERSION", <<"2",".","0">>>>, <<"CALSCALE", <<"G","R","E","G","O","R","I","A","N">>>> } :
         (\A i \in 1..Len(SourceCalendars) : ~Defines(SourceCalendars[i], d[1]))
           => MergedCarries(d[1], d[2])

\* C12: combine_ics_strings([]) raises ValueError('No ICS data provided to
\* combine.') and gives no document.
C12_EmptyListRaises ==
  (merged # NoDocument /\ ics_strings = <<>>) =>
    /\ merged = MergeRaised(<<"N","o"," ","I","C","S"," ","d","a","t","a"," ","p","r","o","v","i","d","e","d"," ","t","o"," ","c","o","m","b","i","n","e",".">>)
    /\ uuid_next = 1

\* C12 happens: the merge was called with the empty list
C12_Witness == merged.kind = "raise" /\ ics_strings = <<>>

\* C13 as stated: a non-empty list with at least one entry that parses is
\* merged into a document.
C13_Original ==
  (merged # NoDocument /\ \E i \in 1..Len(ics_strings) : IsCalendar(ics_strings[i]))
    => merged.kind = "document"

\* C13 as amended: the merge fails exactly when the list is empty, or some
\* entry that is not None fails to parse, or no entry is a document (all
\* are None); a non-empty list whose entries other than None all parse,
\* with at least one of them, is merged into a document.
C13_FailsOnlyOnBadInput ==
  merged # NoDocument =>
    (merged.kind = "raise" <=>
       \/ ics_strings = <<>>
       \/ \E i \in 1..Len(ics_strings) : IsUnparseable(ics_strings[i])
       \/ \A i \in 1..Len(ics_strings) : ~IsCalendar(ics_strings[i]))

\* C13 happens: a None entry and a document, merged
C13_Witness ==
  /\ merged.kind = "document"
  /\ Len(ics_strings) = 2
  /\ ics_strings[1] = NoneEntry
  /\ IsCalendar(ics_strings[2])
  /\ ics_strings[2].comps # <<>>

\* the index (0-based, None entries counted) of the first entry that does
\* not parse
FirstUnparseable ==
  (CHOOSE i \in 1..Len(ics_strings) :
     /\ IsUnparseable(ics_strings[i])
     /\ \A j \in 1..(i - 1) : ~IsUnparseable(ics_strings[j])) - 1

\* C14: when some entry that is not None fails to parse, the merge raises
\* ValueError naming the index of the first such entry; no document is
\* returned and no component was merged (no UID was generated), also when
\* other entries are valid.
C14_MalformedEntryRaises ==
  (merged # NoDocument /\ \E i \in 1..Len(ics_strings) : IsUnparseable(ics_strings[i])) =>
    /\ merged.kind = "raise"
    /\ merged.error.type = <<"V","a","l","u","e","E","r","r","o","r">>
    /\ merged.error.msg = <<"F","a","i","l","e","d"," ","t","o"," ","p","a","r","s","e"," ","I","C","S"," ","p","a","y","l","o","a","d"," ","a","t"," ","i","n","d","e","x"," ">> \o IntToStr(FirstUnparseable)
                            \o <<":"," ">> \o PARSE_ERROR
    /\ uuid_next = 1

\* C14 happens: a valid document with an event, then a malformed entry
C14_Witness ==
  /\ merged.kind = "raise"
  /\ Len(ics_strings) = 2
  /\ IsCalendar(ics_strings[1])
  /\ \E k \in 1..Len(ics_strings[1].comps) : IsVEvent(ics_strings[1].comps[k])
  /\ IsUnparseable(ics_strings[2])


---------------------------------------------------------------------------
(* resolve_timezone                                                        *)

TzReturned == tz_result # NotCalled

\* the hint is given, is not 'local' in any letter case, and neither
\* resolver makes a zone of it
NoResolverTakes(hint) ==
  /\ Truthy(hint)
  /\ Upper(hint.text) # <<"L","O","C","A","L">>
  /\ Lookup(PYTZ_ZONES, hint.text) = 0
  /\ Lookup(GETTZ_ZONES, hint.text) = 0

\* the outcome is UTC with a warning that names the hint and the title
UtcWithWarning(call, outcome) ==
  /\ outcome.kind = "return"
  /\ outcome.tz = PYTZ_UTC
  /\ Truthy(outcome.warning)
  /\ Contains(outcome.warning.text, <<"'">> \o call.tz_str.text \o <<"'">>)
  /\ Truthy(call.event_title) =>
       Contains(outcome.warning.text, <<"'">> \o call.event_title.text \o <<"'">>)

\* C19 (as stated): resolve_timezone never raises, and for every hint that
\* is not 'local' (any letter case), not a key of the abbreviation table as
\* written there, and not a name a resolver accepts, it returns UTC with a
\* non-empty warning naming the hint and the event title.
C19_Original ==
  TzReturned =>
    /\ tz_result.kind = "return"
    /\ (NoResolverTakes(tz_call.tz_str) /\ Lookup(ABBR_TO_TZ, tz_call.tz_str.text) = 0)
         => UtcWithWarning(tz_call, tz_result)

\* C19 (amended): resolve_timezone never raises, and for every hint that is
\* not 'local', not a key of the abbreviation table in any letter case, and
\* not a name a resolver accepts, it returns UTC with a non-empty warning
\* naming the hint and the event title.
C19_UnknownHintGivesUtc ==
  TzReturned =>
    /\ tz_result.kind = "return"
    /\ (NoResolverTakes(tz_call.tz_str)
          /\ Lookup(ABBR_TO_TZ, Upper(tz_call.tz_str.text)) = 0)
         => UtcWithWarning(tz_call, tz_result)

\* an unknown hint of a titled event was resolved to UTC with a warning
C19_Witness ==
  /\ TzReturned
  /\ tz_call.tz_str = Str(<<"M","a","r","s","/","P","h","o","b","o","s">>)
  /\ tz_call.event_title = Str(<<"L","u","n","c","h">>)
  /\ tz_result.tz = PYTZ_UTC
  /\ Truthy(tz_result.warning)

---------------------------------------------------------------------------
(* CalendarEvent.from_dict / to_dict                                       *)

RoundTripped == ev_result.kind = "roundtrip"

\* C20 (as stated): from_dict(to_dict(e)) recreates an event equal to e in
\* all eight fields, for every CalendarEvent e, those whose description or
\* location is None or the empty string included.
C20_Original ==
  RoundTripped => ~ev_result.back.raised /\ ev_result.back.event = ev_result.event

\* C20 (amended): from_dict(to_dict(e)) recreates an event equal to e in all
\* eight fields, for every CalendarEvent e whose uid is a non-empty string
\* and whose description and location are each None or a non-empty string.
C20_RoundTrip ==
  (/\ RoundTripped
   /\ Truthy(ev_result.event["uid"])
   /\ \A k \in OPTIONAL_FIELDS : ev_result.event[k] # Str(<<>>))
    => ~ev_result.back.raised /\ ev_result.back.event = ev_result.event

\* an event with a description and no location went through the round trip
C20_Witness ==
  /\ RoundTripped
  /\ ev_result.event["uid"] = Str(<<"t","e","s","t","-","1","2","3">>)
  /\ ev_result.event["description"] = Str(<<"A"," ","t","e","s","t">>)
  /\ ev_result.event["location"] = PyNone
  /\ ev_result.data["location"] = NoKey
  /\ ~ev_result.back.raised
  /\ ev_result.back.event = ev_result.event

---------------------------------------------------------------------------
(* build_ics_from_events and the callers that return the final text        *)

\* the number of lines NAME:value of the text
CountLines(lines, name, value) ==
  Cardinality({ i \in 1..Len(lines) : lines[i] = <<name, value>> })

\* C15: whenever _build_merged_ics or create_calendar_event returns text for
\* N >= 1 built events, the text has exactly one BEGIN:VCALENDAR and one
\* END:VCALENDAR line, N VEVENTs, and every UID in it is one the merge
\* generated.
C15_OneCalendarInFinalText ==
  final.kind = "text" =>
    /\ CountLines(final.lines, "BEGIN", <<"V","C","A","L","E","N","D","A","R">>) = 1
    /\ CountLines(final.lines, "END", <<"V","C","A","L","E","N","D","A","R">>) = 1
    /\ CountLines(final.lines, "BEGIN", <<"V","E","V","E","N","T">>) = Len(built.ics_strings)
    /\ \A i \in 1..Len(final.lines) :
         final.lines[i][1] = "UID" => EndsWith(final.lines[i][2], UID_SUFFIX)

\* the elements build_ics_from_events was called with
BuildInput == normalize_events_input(raw_events)

BuildCalled == built # NotCalled

\* the name a warning gives an element: its title, or a placeholder
NamedIn(warning, element, i) ==
  IF element.data["title"] = NoKey
    THEN \/ Contains(warning.text, <<"E","v","e","n","t"," ">> \o IntToStr(i))
         \/ Contains(warning.text, <<"N","o","n","e">>)
    ELSE Contains(warning.text, PyStr(element.data["title"]))

\* C16: build_ics_from_events never raises, and each of the N elements gives
\* either one document or a skip with one warning that names the event, so
\* that documents and warned skips together are N.
C16_EveryElementBuiltOrWarned ==
  BuildCalled =>
    /\ built.kind = "return"
    /\ Len(built.results) = Len(BuildInput)
    /\ \A i \in 1..Len(built.results) :
         ~built.results[i].success =>
           /\ Truthy(built.results[i].warning)
           /\ NamedIn(built.results[i].warning, BuildInput[i], i)
    /\ Len(built.ics_strings)
         + Cardinality({ i \in 1..Len(built.results) :
                           ~built.results[i].success /\ Truthy(built.results[i].warning) })
       = Len(BuildInput)

\* the required fields of the data that are absent / absent or null
AbsentFields(d) == {k \in REQUIRED_FIELDS : d[k] = NoKey}
AbsentOrNull(d) == {k \in REQUIRED_FIELDS : d[k] \in {NoKey, PyNone}}

\* the i-th element was rejected for the missing fields `missing`
RejectedByBuilder(i, missing) ==
  /\ ~built.results[i].success
  /\ "missing_keys" \in DOMAIN built.results[i].warning
  /\ built.results[i].warning.missing_keys = missing
  /\ NamedIn(built.results[i].warning, BuildInput[i], i)

\* from_dict rejected the data for the missing fields `missing`
RejectedByFromDict(missing) ==
  /\ ev_result.kind = "raise"
  /\ ev_result.error.missing_fields = missing
  /\ ev_result.error.event_title = GetOr(ev_data.data, "title", <<"U","n","k","n","o","w","n">>)

\* C17 (as stated): data in which a required field is absent or null is
\* never built and gets no default: from_dict and the builder reject it
\* with the title (or a placeholder) and the set of missing fields.
C17_Original ==
  /\ BuildCalled =>
       \A i \in 1..Len(built.results) :
         AbsentOrNull(BuildInput[i].data) # {} =>
           RejectedByBuilder(i, AbsentOrNull(BuildInput[i].data))
  /\ (ev_data.kind = "dict" /\ ev_result # NotCalled /\ AbsentOrNull(ev_data.data) # {})
       => RejectedByFromDict(AbsentOrNull(ev_data.data))

\* C17 (amended): data in which a required field is absent is never built
\* and gets no default: from_dict and the builder reject it with the title
\* (or a placeholder) and the set of absent fields.
C17_AbsentFieldRejected ==
  /\ BuildCalled =>
       \A i \in 1..Len(built.results) :
         AbsentFields(BuildInput[i].data) # {} =>
           RejectedByBuilder(i, AbsentFields(BuildInput[i].data))
  /\ (ev_data.kind = "dict" /\ ev_result # NotCalled /\ AbsentFields(ev_data.data) # {})
       => RejectedByFromDict(AbsentFields(ev_data.data))

\* the builder skipped an element without title and uid under a placeholder
C17_Witness ==
  /\ BuildCalled
  /\ built.kind = "return"
  /\ \E i \in 1..Len(built.results) :
       /\ AbsentFields(BuildInput[i].data) = {"title", "uid"}
       /\ RejectedByBuilder(i, {"title", "uid"})
       /\ built.ics_strings = <<>>

\* the i-th element is a valid record that was built: the six required
\* fields are strings
ValidBuilt(i) ==
  /\ \A k \in REQUIRED_FIELDS : BuildInput[i].data[k].py = "str"
  /\ built.results[i].success

\* the document of the i-th element (the documents are in element order)
DocumentOf(i) ==
  built.ics_strings[Cardinality({ j \in 1..i : built.results[j].success })]

\* the value of the property of the only component of a document
ValueOf(doc, name) ==
  LET items == component_items(doc.comps[1])
  IN  items[CHOOSE k \in 1..Len(items) : items[k][1] = name][2]

\* one VEVENT with DTSTART and DTEND in UTC
OneUtcEvent(doc) ==
  /\ Len(doc.comps) = 1
  /\ doc.comps[1].name = "VEVENT"
  /\ EndsWith(ValueOf(doc, "DTSTART"), <<"Z">>)
  /\ EndsWith(ValueOf(doc, "DTEND"), <<"Z">>)

\* C18 (as stated): the document built for a valid record has exactly one
\* VEVENT, its DTSTART and DTEND are in UTC, and its UID is the record's uid.
C18_Original ==
  (BuildCalled /\ built.kind = "return") =>
    \A i \in 1..Len(built.results) :
      ValidBuilt(i) =>
        /\ OneUtcEvent(DocumentOf(i))
        /\ ValueOf(DocumentOf(i), "UID") = BuildInput[i].data["uid"].text

\* C18 (amended): the document built for a valid record has exactly one
\* VEVENT, its DTSTART and DTEND are in UTC, and its UID is the record's
\* uid when that uid is not empty.
C18_BuiltDocument ==
  (BuildCalled /\ built.kind = "return") =>
    \A i \in 1..Len(built.results) :
      ValidBuilt(i) =>
        /\ OneUtcEvent(DocumentOf(i))
        /\ BuildInput[i].data["uid"].text # <<>> =>
             ValueOf(DocumentOf(i), "UID") = BuildInput[i].data["uid"].text

\* 10:00 AM EST on 15 January was built as 15:00 UTC under the uid given
C18_Witness ==
  /\ BuildCalled
  /\ built.kind = "return"
  /\ \E i \in 1..Len(built.results) :
       /\ ValidBuilt(i)
       /\ BuildInput[i].data["timezone"] = Str(<<"E","S","T">>)
       /\ ValueOf(DocumentOf(i), "DTSTART") = <<"2","0","2","5","0","1","1","5","T","1","5","0","0","0","0","Z">>
       /\ ValueOf(DocumentOf(i), "UID") = <<"e","v","t","-","1">>

---------------------------------------------------------------------------
(* ui/theme/manager.py: ThemeManager.  The class holds one theme and one   *)
(* lock; any number of threads call get_theme, set_theme and toggle_theme. *)
(* A call is stepped per statement inside `with cls._lock`, so that what   *)
(* the lock is for is something the check can refute.                      *)

\* the ThemeManager calls made in one behaviour
MaxCalls == 4

\* the values set_theme is called with
ThemeArgs == {"light", "dark", "blue", "Light", ""}

\* A plausible slip: the lock is taken whoever holds it.
lock_free_Always(lock) == TRUE

\* `with cls._lock` can be entered: no thread holds the lock
lock_free(lock) == lock = 0

\* A plausible slip: set_theme stores whatever it is given.
valid_theme_Any(value) == TRUE

\* theme in ("light", "dark")
valid_theme(value) == value \in {"light", "dark"}

\* "dark" if cls._theme == "light" else "light"
flipped(value) == IF value = "light" THEN "dark" ELSE "light"

\* what no ThemeManager call touches
otherVars == <<clsVars, retryVars, mergeVars, buildVars, pureVars, appVars>>

InitTheme ==
  /\ ThemeIdle /\ AppIdle
  /\ ClsIdle /\ RetryIdle /\ MergeIdle /\ BuildIdle /\ PureIdle

\* a thread calls get_theme(), set_theme(value) or toggle_theme() and
\* reaches the `with` statement
ThemeCall(t) ==
  /\ th[t].pc = "idle"
  /\ th_calls < MaxCalls
  /\ \E op \in {"get", "set", "toggle"} :
       \E value \in (IF op = "set" THEN ThemeArgs ELSE {""}) :
         /\ th' = [th EXCEPT ![t] = [NoCall EXCEPT !.pc = "with", !.op = op,
                                                  !.arg = value]]
         /\ sets' = IF op = "set" THEN sets + 1 ELSE sets
  /\ th_calls' = th_calls + 1
  /\ UNCHANGED <<theme, theme_lock, toggles>>
  /\ UNCHANGED otherVars

\* with cls._lock: the thread gets the lock
ThemeAcquire(t) ==
  /\ th[t].pc = "with"
  /\ lock_free(theme_lock)
  /\ theme_lock' = t
  /\ th' = [th EXCEPT ![t].pc = "body", ![t].seen = theme]
  /\ UNCHANGED <<theme, th_calls, toggles, sets>>
  /\ UNCHANGED otherVars

\* leaving the `with` block releases the lock the thread holds
Released(t) == IF theme_lock = t THEN 0 ELSE theme_lock

\* get_theme: return cls._theme
GetTheme(t) ==
  /\ th[t].pc = "body" /\ th[t].op = "get"
  /\ th' = [th EXCEPT ![t].pc = "idle", ![t].ret = theme, ![t].left = theme]
  /\ theme_lock' = Released(t)
  /\ UNCHANGED <<theme, th_calls, toggles, sets>>
  /\ UNCHANGED otherVars

\* set_theme: if theme in ("light", "dark"): cls._theme = theme
SetTheme(t) ==
  /\ th[t].pc = "body" /\ th[t].op = "set"
  /\ theme' = IF valid_theme(th[t].arg) THEN th[t].arg ELSE theme
  /\ th' = [th EXCEPT ![t].pc = "idle", ![t].ret = "None", ![t].left = theme']
  /\ theme_lock' = Released(t)
  /\ UNCHANGED <<th_calls, toggles, sets>>
  /\ UNCHANGED otherVars

\* toggle_theme: the right-hand side "dark" if cls._theme == "light" else
\* "light" is evaluated
ToggleRead(t) ==
  /\ th[t].pc = "body" /\ th[t].op = "toggle"
  /\ th' = [th EXCEPT ![t].pc = "store", ![t].new = flipped(theme)]
  /\ UNCHANGED <<theme, theme_lock, th_calls, toggles, sets>>
  /\ UNCHANGED otherVars

\* toggle_theme: cls._theme = ... is stored
ToggleStore(t) ==
  /\ th[t].pc = "store"
  /\ theme' = th[t].new
  /\ th' = [th EXCEPT ![t].pc = "return", ![t].left = theme']
  /\ UNCHANGED <<theme_lock, th_calls, toggles, sets>>
  /\ UNCHANGED otherVars

\* toggle_theme: return cls._theme
ToggleReturn(t) ==
  /\ th[t].pc = "return"
  /\ th' = [th EXCEPT ![t].pc = "idle", ![t].ret = theme]
  /\ theme_lock' = Released(t)
  /\ toggles' = toggles + 1
  /\ UNCHANGED <<theme, th_calls, sets>>
  /\ UNCHANGED otherVars

NextTheme ==
  \E t \in Threads :
    \/ ThemeCall(t) \/ ThemeAcquire(t) \/ GetTheme(t) \/ SetTheme(t)
    \/ ToggleRead(t) \/ ToggleStore(t) \/ ToggleReturn(t)

SpecTheme == InitTheme /\ [][NextTheme]_vars

---------------------------------------------------------------------------
(* ui/main_window.py and Calender.py: NLCalendarCreator.  The main thread  *)
(* runs the slots (one action per handler; a handler that opens a modal    *)
(* dialog is split where the dialog's event loop runs), the executor's two *)
(* threads run _create_event_thread, and a signal emitted by a worker is   *)
(* queued until the main thread delivers it.  A signal emitted on the main *)
(* thread calls its slot at once.  The status and progress signals change  *)
(* labels and the overlay only and are left out.                           *)

\* the process_event calls made in one behaviour
MaxRequests == 2

\* the two programs of the repository
Apps == {"main_window", "Calender"}

\* Calender.py: self._active_threads is assigned nowhere (__init__ sets
\* _active_futures), so the `finally` of _create_event_thread raises
\* AttributeError before it emits enable_ui_signal
ActiveThreadsDefined == FALSE

\* A plausible slip: the shortcut submits whatever the state of the button.
can_submit_Always(via, enabled) == TRUE

\* the Create button takes a click only while enabled; keyPressEvent
\* (Calender.py) tests create_button.isEnabled() before process_event
can_submit(via, enabled) == enabled

\* no modal dialog keeps the user from the main window
NoModal == ~settings_open /\ warnings_open = {}

\* signal.emit(...) from a worker thread: queued for the main thread
Emit(q, sig, w) == Append(q, [sig |-> sig, w |-> w])

InitApp ==
  /\ app \in Apps
  /\ api_client \in {"None", "client"}
  /\ create_enabled = TRUE
  /\ settings_open = FALSE /\ warnings_open = {} /\ sigq = <<>> /\ pending = 0
  /\ wk = [w \in Workers |-> FreeWorker] /\ requests = 0 /\ none_calls = 0
  /\ ThemeIdle
  /\ ClsIdle /\ RetryIdle /\ MergeIdle /\ BuildIdle /\ PureIdle

\* what no action of the application touches
restVars == <<clsVars, retryVars, mergeVars, buildVars, pureVars, themeVars>>

\* process_event, started by the Create button or (Calender.py) by
\* Ctrl/Cmd+Enter: the client is made if there is none, the input is
\* validated, then the UI is disabled and the worker submitted
ProcessEvent(via) ==
  /\ NoModal
  /\ via = "key" => app = "Calender"
  /\ can_submit(via, create_enabled)
  /\ requests < MaxRequests
  /\ requests' = requests + 1
  /\ \E made \in (IF api_client = "None" THEN {TRUE, FALSE} ELSE {TRUE}) :
       \E valid \in {TRUE, FALSE} :
         IF ~made
           THEN UNCHANGED <<api_client, create_enabled, pending>>
         ELSE /\ api_client' = "client"
              /\ IF valid
                   THEN create_enabled' = FALSE /\ pending' = pending + 1
                   ELSE UNCHANGED <<create_enabled, pending>>
  /\ UNCHANGED <<app, settings_open, warnings_open, sigq, wk, none_calls>>
  /\ UNCHANGED restVars

\* _show_settings up to dialog.exec(): the settings button is never disabled
OpenSettings ==
  /\ NoModal
  /\ settings_open' = TRUE
  /\ UNCHANGED <<app, api_client, create_enabled, warnings_open, sigq, pending, wk,
                 requests, none_calls>>
  /\ UNCHANGED restVars

\* _show_settings after dialog.exec(): an accepted dialog resets the client
CloseSettings ==
  /\ settings_open
  /\ settings_open' = FALSE
  /\ \E accepted \in {TRUE, FALSE} :
       api_client' = IF accepted THEN "None" ELSE api_client
  /\ UNCHANGED <<app, create_enabled, warnings_open, sigq, pending, wk, requests,
                 none_calls>>
  /\ UNCHANGED restVars

\* the main thread's event loop (a dialog's included) delivers the oldest
\* queued signal to its slot: _set_ui_enabled / _enable_ui,
\* _finalize_events (whose `finally` enables the UI), _show_image_warning
Deliver ==
  /\ sigq # <<>>
  /\ sigq' = Tail(sigq)
  /\ CASE Head(sigq).sig = "enable_ui" ->
            create_enabled' = TRUE /\ UNCHANGED warnings_open
       [] Head(sigq).sig = "finalize_events" ->
            create_enabled' = TRUE /\ UNCHANGED warnings_open
       [] OTHER ->
            warnings_open' = warnings_open \cup {Head(sigq).w}
              /\ UNCHANGED create_enabled
  /\ UNCHANGED <<app, api_client, settings_open, pending, wk, requests, none_calls>>
  /\ UNCHANGED restVars

\* _show_image_warning after the dialog: decision_queue.put(reply == Ok)
AnswerWarning(w) ==
  /\ w \in warnings_open
  /\ warnings_open' = warnings_open \ {w}
  /\ \E ok \in {TRUE, FALSE} :
       wk' = [wk EXCEPT ![w].decision = IF ok THEN "ok" ELSE "cancel"]
  /\ UNCHANGED <<app, api_client, create_enabled, settings_open, sigq, pending,
                 requests, none_calls>>
  /\ UNCHANGED restVars

\* a thread of the executor takes a submitted task
TakeTask(w) ==
  /\ wk[w].pc = "free"
  /\ pending > 0
  /\ pending' = pending - 1
  /\ wk' = [wk EXCEPT ![w] = [pc |-> "start", decision |-> "none", last |-> "none"]]
  /\ UNCHANGED <<app, api_client, create_enabled, settings_open, warnings_open, sigq,
                 requests, none_calls>>
  /\ UNCHANGED restVars

\* how a worker leaves the `try`: main_window.py has emitted what it emits
\* and the task is over; Calender.py goes on to its `finally`
Leave(w, how) ==
  [wk EXCEPT ![w].pc = IF app = "Calender" THEN "finally" ELSE "free",
             ![w].last = how]

\* _create_event_thread up to the call: the text and the images are read.
\* Calender.py first tests self.api_client, and asks the user when an image
\* could not be read.
StartWork(w) ==
  /\ wk[w].pc = "start"
  /\ IF app = "Calender"
       THEN IF api_client = "None"
              THEN /\ sigq' = Emit(sigq, "enable_ui", w)
                   /\ wk' = Leave(w, "no_client")
            ELSE \E failed_images \in {0, 1} :
                   IF failed_images > 0
                     THEN /\ sigq' = Emit(sigq, "image_warning", w)
                          /\ wk' = [wk EXCEPT ![w].pc = "wait"]
                   ELSE /\ wk' = [wk EXCEPT ![w].pc = "ready"]
                        /\ UNCHANGED sigq
     ELSE \E raised \in {TRUE, FALSE} :
            IF raised
              THEN /\ sigq' = Emit(sigq, "enable_ui", w)
                   /\ wk' = Leave(w, "error")
            ELSE /\ wk' = [wk EXCEPT ![w].pc = "ready"]
                 /\ UNCHANGED sigq
  /\ UNCHANGED <<app, api_client, create_enabled, settings_open, warnings_open,
                 pending, requests, none_calls>>
  /\ UNCHANGED restVars

\* Calender.py: decision_queue.get(timeout=...) returns the user's answer
TakeDecision(w) ==
  /\ wk[w].pc = "wait"
  /\ wk[w].decision # "none"
  /\ wk' = IF wk[w].decision = "ok" THEN [wk EXCEPT ![w].pc = "ready"]
           ELSE Leave(w, "cancelled")
  /\ UNCHANGED <<app, api_client, create_enabled, settings_open, warnings_open, sigq,
                 pending, requests, none_calls>>
  /\ UNCHANGED restVars

\* Calender.py: decision_queue.get raises queue.Empty after the timeout
DecisionTimeout(w) ==
  /\ wk[w].pc = "wait"
  /\ wk[w].decision = "none"
  /\ wk' = Leave(w, "timeout")
  /\ UNCHANGED <<app, api_client, create_enabled, settings_open, warnings_open, sigq,
                 pending, requests, none_calls>>
  /\ UNCHANGED restVars

\* self.api_client.get_event_data(...): the worker reads self.api_client,
\* without the lock, and calls; on None the attribute lookup raises
CallClient(w) ==
  /\ wk[w].pc = "ready"
  /\ IF api_client = "None"
       THEN /\ none_calls' = none_calls + 1
            /\ wk' = Leave(w, "none_client")
            /\ sigq' = IF app = "Calender" THEN sigq ELSE Emit(sigq, "enable_ui", w)
     ELSE /\ wk' = [wk EXCEPT ![w].pc = "call"]
          /\ UNCHANGED <<sigq, none_calls>>
  /\ UNCHANGED <<app, api_client, create_enabled, settings_open, warnings_open,
                 pending, requests>>
  /\ UNCHANGED restVars

\* get_event_data returns events, returns nothing or raises
CallReturns(w) ==
  /\ wk[w].pc = "call"
  /\ \E how \in {"events", "no_events", "error"} :
       /\ wk' = Leave(w, how)
       /\ sigq' = IF how = "events" THEN Emit(sigq, "finalize_events", w)
                  ELSE IF app = "Calender" THEN sigq
                  ELSE Emit(sigq, "enable_ui", w)
  /\ UNCHANGED <<app, api_client, create_enabled, settings_open, warnings_open,
                 pending, requests, none_calls>>
  /\ UNCHANGED restVars

\* Calender.py, the `finally` of _create_event_thread:
\* self._active_threads.discard(...), then enable_ui_signal.emit(True)
Finally(w) ==
  /\ wk[w].pc = "finally"
  /\ wk' = [wk EXCEPT ![w].pc = "free"]
  /\ sigq' = IF ActiveThreadsDefined THEN Emit(sigq, "enable_ui", w) ELSE sigq
  /\ UNCHANGED <<app, api_client, create_enabled, settings_open, warnings_open,
                 pending, requests, none_calls>>
  /\ UNCHANGED restVars

\* the steps of the executor's threads
WorkerStep ==
  \E w \in Workers :
    \/ TakeTask(w) \/ StartWork(w) \/ TakeDecision(w) \/ DecisionTimeout(w)
    \/ CallClient(w) \/ CallReturns(w) \/ Finally(w)

NextApp ==
  \/ \E via \in {"button", "key"} : ProcessEvent(via)
  \/ OpenSettings \/ CloseSettings \/ Deliver
  \/ \E w \in Workers : AnswerWarning(w)
  \/ WorkerStep

SpecApp == InitApp /\ [][NextApp]_vars

\* the executor runs what is submitted and every blocking call of a worker
\* ends; the main thread's event loop delivers what is queued
SpecAppFair == SpecApp /\ WF_vars(WorkerStep) /\ WF_vars(Deliver)

---------------------------------------------------------------------------
(* CalendarEvent.from_dict and the uid                                     *)

\* from_dict was called on a dict with the six required keys and returned
FromDictReturned ==
  /\ ev_data.kind = "dict"
  /\ ev_result.kind = "event"

\* C21: from_dict on a dict with the six required keys and an empty uid
\* returns an event whose uid is a newly drawn, non-empty UUID text; on a
\* dict with a non-empty uid it keeps that uid and draws no UUID.
C21_EmptyUidGenerated ==
  FromDictReturned =>
    /\ ev_data.data["uid"] = Str(<<>>) =>
         /\ ev_result.event["uid"] = Str(uuid4(0))
         /\ ev_result.event["uid"].text # <<>>
         /\ ev_result.uuid = 1
    /\ (ev_data.data["uid"].py = "str" /\ ev_data.data["uid"].text # <<>>) =>
         /\ ev_result.event["uid"] = ev_data.data["uid"]
         /\ ev_result.uuid = 0

\* from_dict returned an event for a dict whose uid was the empty string
C21_Witness ==
  /\ FromDictReturned
  /\ ev_data.data["uid"] = Str(<<>>)
  /\ ev_data.data["title"] = Str(<<"L","u","n","c","h">>)
  /\ ev_result.event["uid"] = Str(<<"u","u","i","d","4","-","0">>)

---------------------------------------------------------------------------
(* ThemeManager under concurrent calls                                     *)

\* thread t has made a call of `op` and the call has returned
Completed(t, op) == th[t].pc = "idle" /\ th[t].op = op

\* C22: under every interleaving of get_theme, set_theme and toggle_theme
\* calls the theme held is 'light' or 'dark', every value get_theme or
\* toggle_theme returned is one of the two, and a set_theme call with any
\* other value left the theme as it found it.
C22_ThemeAlwaysValid ==
  /\ theme \in {"light", "dark"}
  /\ \A t \in Threads :
       /\ (Completed(t, "get") \/ Completed(t, "toggle")) =>
            th[t].ret \in {"light", "dark"}
       /\ (Completed(t, "set") /\ th[t].arg \notin {"light", "dark"}) =>
            th[t].left = th[t].seen

\* set_theme("blue") returned while the theme was 'dark', after a toggle of
\* the other thread, and the theme is still 'dark'
C22_Witness ==
  /\ Completed(1, "set") /\ th[1].arg = "blue"
  /\ th[1].seen = "dark" /\ th[1].left = "dark"
  /\ Completed(2, "toggle") /\ th[2].ret = "dark"
  /\ theme = "dark"

\* C30: toggle_theme is an atomic read-modify-write: a call returns the
\* theme its own flip stored, and no toggle is lost: with no set_theme
\* call, once k toggles have returned and none is between its flip and its
\* return, the theme is 'dark' exactly when k is odd.
C30_ToggleAtomic ==
  /\ \A t \in Threads :
       Completed(t, "toggle") =>
         /\ th[t].new = flipped(th[t].seen)
         /\ th[t].left = th[t].new
         /\ th[t].ret = th[t].new
  /\ (sets = 0 /\ \A t \in Threads : th[t].pc # "return") =>
       (theme = "dark" <=> toggles % 2 = 1)

\* three toggles have returned, made by both threads, and the theme is dark
C30_Witness ==
  /\ sets = 0 /\ toggles = 3
  /\ Completed(1, "toggle") /\ Completed(2, "toggle")
  /\ theme = "dark"

---------------------------------------------------------------------------
(* NLCalendarCreator: the worker and the main thread                       *)

\* the requests that have been submitted and are not past get_event_data:
\* tasks no worker has taken, and workers before or inside the call
InFlight ==
  pending + Cardinality({ w \in Workers : wk[w].pc \in {"start", "wait", "ready", "call"} })

\* C23: at most one request is in flight at any time: from the submission
\* of a worker by process_event until its get_event_data call has ended, no
\* click on Create and no Ctrl/Cmd+Enter submits a second worker, and the
\* Create button stays disabled.
C23_OneRequestInFlight ==
  /\ InFlight <= 1
  /\ InFlight = 1 => ~create_enabled

\* a second request is inside get_event_data on the other worker thread,
\* after the first one ended with an error
C23_Witness ==
  /\ requests = 2
  /\ wk[1].pc = "free" /\ wk[1].last = "error"
  /\ wk[2].pc = "call"
  /\ ~create_enabled

\* C29: no worker calls get_event_data on a None api_client: nothing the
\* main thread does between process_event and the worker's read of
\* self.api_client resets the client.
C29_ClientNeverNone == none_calls = 0

\* C28: once process_event has disabled the UI and submitted a worker, the
\* UI is enabled again, whatever the outcome of the worker.
C28_UiReenabled == (~create_enabled) ~> create_enabled

\* the same for ui/main_window.py alone
MainWindowReenabled == (app = "main_window" /\ ~create_enabled) ~> create_enabled

---------------------------------------------------------------------------
(* get_event_data: backoff, status callback, how the call ends             *)

\* attempt i (1-based) failed, its error is one the classifier retries, and
\* it was not the last attempt allowed
RetriedAttempt(i) ==
  /\ attempt_log[i].raised
  /\ attempt_log[i].retryable
  /\ i - 1 < max_retries - 1

\* C24: after a failed retryable attempt with 0-based index
\* a < max_retries - 1 the call sleeps exactly min(base_delay * 2^a,
\* max_backoff) before the next attempt (1, 2, 4, 8 seconds with the
\* defaults); no sleep exceeds max_backoff, and there is no sleep after the
\* final attempt, a success or a terminal error.
C24_BackoffSchedule ==
  /\ \A i \in 1..Len(attempt_log) :
       RetriedAttempt(i) =>
         /\ Len(sleeps) >= i
         /\ sleeps[i] = Min(base_delay * Pow2(i - 1), MAX_BACKOFF)
  /\ \A j \in 1..Len(sleeps) : sleeps[j] <= MAX_BACKOFF
  /\ Len(sleeps) = Cardinality({ i \in 1..Len(attempt_log) : RetriedAttempt(i) })
  /\ (base_delay = 1 /\ max_retries = 5) =>
       \A j \in 1..Len(sleeps) : sleeps[j] = <<1, 2, 4, 8>>[j]

\* A call with the defaults used up its five attempts: it slept 1, 2, 4 and 8.
C24_Witness ==
  /\ pc = "done"
  /\ base_delay = 1 /\ max_retries = 5
  /\ Len(attempt_log) = 5
  /\ sleeps = <<1, 2, 4, 8>>

\* the positions of status_log that hold the 'Attempting' message of attempt i
AttemptingAt(i) ==
  { j \in 1..Len(status_log) : status_log[j] = Status("ATTEMPTING", i, max_retries) }

\* an attempt is under way or has ended
AttemptEntered == attempt_log # <<>> \/ pc \in {"images", "api"}

\* C25: every attempt of get_event_data reports 'Attempting (Try i/max_retries)'
\* through the status callback, and does so before the attempt's first upload
\* and its call of the service; a call that made n attempts has reported at
\* least n times.
C25_StatusEveryAttempt ==
  /\ \A i \in 1..Len(attempt_log) : AttemptingAt(i) # {}
  /\ pc \in {"images", "api"} => AttemptingAt(attempt + 1) # {}
  /\ AttemptEntered => trace # <<>> /\ trace[1] = "status"
  /\ \A k \in 1..Len(trace) : trace[k] \in {"upload", "llm"} => k > 1
  /\ Len(status_log) >= Len(attempt_log)

\* A call made three attempts; the last one uploaded an image and called the
\* service after it had reported.
C25_Witness ==
  /\ pc = "done"
  /\ Len(attempt_log) = 3
  /\ Len(trace) >= 3
  /\ trace[1] = "status" /\ trace[2] = "upload" /\ trace[3] = "llm"

\* how a call of get_event_data ended
\* Python's None, as `return None` gives it or as json.loads gives it for `null`
IsNone(value) == value.kind \in {"None", "null"}

EndedWithEvents == result.kind = "return" /\ ~IsNone(result.value)
EndedWithKeyError ==
  /\ result.kind = "raise"
  /\ result.error.type = <<"C","a","l","e","n","d","a","r","A","P","I","E","r","r","o","r">>
  /\ result.error.msg \in {MSG_KEY_EXPIRED, MSG_KEY_INVALID}
EndedWithNonRetryable ==
  /\ result.kind = "raise"
  /\ ~IsCalendarAPIError(result.error)
  /\ result.error = cur_error
  /\ ~is_retryable_error(result.error)
EndedExhausted ==
  /\ result.kind = "raise"
  /\ result.error.type = <<"R","e","t","r","y","E","x","h","a","u","s","t","e","d","E","r","r","o","r">>
ReturnedNone == result.kind = "return" /\ IsNone(result.value)

----------------------------------------------------------------------------
(* combine_ics_strings: what is left alone                                 *)

\* the components of the calendars `calendars`, in order
RECURSIVE AllComps(_, _)
AllComps(calendars, i) ==
  IF i > Len(calendars) THEN <<>>
  ELSE calendars[i].comps \o AllComps(calendars, i + 1)

\* the components of a list that are not VTIMEZONEs, in order
RECURSIVE NotTimezones(_)
NotTimezones(comps) ==
  IF comps = <<>> THEN <<>>
  ELSE (IF Head(comps).name = "VTIMEZONE" THEN <<>> ELSE <<Head(comps)>>)
         \o NotTimezones(Tail(comps))

\* the merged document holds, VTIMEZONEs aside, the components of the parsed
\* inputs one for one and in their order; each is the input component, but
\* for the UID of a VEVENT
ComponentsPassedThrough ==
  merged.kind = "document" =>
    LET inp == NotTimezones(AllComps(parse_ics_strings(ics_strings).calendars, 1))
        out == NotTimezones(merged.comps)
    IN  /\ Len(out) = Len(inp)
        /\ \A k \in 1..Len(inp) :
             /\ out[k].name = inp[k].name
             /\ out[k].tzid = inp[k].tzid
             /\ out[k].rest = inp[k].rest
             /\ inp[k].name # "VEVENT" => out[k] = inp[k]

\* C26: combine_ics_strings passes every component that is neither VTIMEZONE
\* nor VEVENT through unchanged and changes nothing of a VEVENT but its UID:
\* the VEVENTs of the output are those of the parsed inputs, as many and in
\* the same order, each with its DTSTAMP, DTSTART, DTEND, SUMMARY and VALARM;
\* the call leaves the input documents as they were.
C26_OnlyUidChanged ==
  /\ []ComponentsPassedThrough
  /\ [][merged' # merged => ics_strings' = ics_strings]_vars

\* An event with times, a summary and a reminder, and a VTODO, were merged.
C26_Witness ==
  /\ merged.kind = "document"
  /\ Len(merged.comps) = 2
  /\ \E k \in 1..2 :
       /\ merged.comps[k].name = "VEVENT"
       /\ merged.comps[k].rest = REST_ALARM
       /\ merged.comps[k].uid # Value(<<"a">>)
  /\ \E k \in 1..2 : merged.comps[k].name = "VTODO"

====
